---- MODULE Spec2Model ----
(***************************************************************************)
(* PsydeKick: the rule-based tagging engine of workflows/tagging.py and    *)
(* the compliance and payment aggregation of workflows/payments.py.        *)
(*                                                                         *)
(* Python values that reach the evaluator are modelled as tagged records:  *)
(* a str is a sequence of one-character strings, a float is the decimal    *)
(* num / 10^scale, and NaN is the float pandas reads from an empty cell.   *)
(* The character set is the one of Ord below; float() is modelled on       *)
(* plain decimals over that character set (sign, digits, one point).       *)
(***************************************************************************)
EXTENDS Integers, Sequences, FiniteSets, TLC

VARIABLES
    cond,            \* eval_single_condition: the condition row
    sess_responses,  \* the session's responses
    cond_qs,         \* the question names of the condition
    pc,              \* "start", "loop", "done", or "aborted" by an exception
    sub,             \* sess_responses filtered to cond_qs
    idx,             \* position of the for loop in sub
    target,          \* the local variable target
    ret,             \* the value returned
    trace,           \* what the loop did with each response so far
    hb_value,        \* handle_between: the argument value
    hb_target,       \* the argument target, a range string
    hb_range,        \* the brackets and bounds hb_target was written from
    hb_pc,           \* "call" or "done"
    hb_result,       \* what the call returned or raised
    sessions,        \* run_tagging: sessions.csv
    responses,       \* responses.csv
    workflows,       \* workflows.csv
    groups,          \* condition_groups.csv
    conditions,      \* conditions.csv
    cond_questions,  \* condition_questions.csv
    tags,            \* tags.csv
    tpc,             \* "load", "loop", "write" or "done"
    workflows_df,    \* the workflows of workflow_type '1'
    si,              \* position of the session loop
    wi,              \* position of the workflow loop
    session_to_tags, \* session id -> list of tag titles
    session_tags,    \* the column written to tagged_sessions.csv
    runs,            \* how many times run_tagging was called
    dc_sessions,     \* compute_daily_counts: the argument sessions
    dc_start_date,   \* start_date, a day number
    dc_days,         \* days
    dc_tz,           \* tz, hours east of UTC
    dc_systz,        \* the timezone of the machine, hours east of UTC
    dc_reason_filter,\* reason_filter
    dc_pc,           \* "call" or "done"
    dc_daily,        \* the table returned
    st_daily,        \* one schema tab: the daily-count table
    st_schema,       \* the schema row
    st_start_date,   \* start_date, a day number
    st_today,        \* datetime.now(tz).date(), a day number
    st_pc,           \* "bonus", "stats" or "done"
    st_bonus_days,   \* what compute_bonus_days returned
    st_possible,     \* what compute_stats returned
    st_completed,
    all_sessions_df,         \* the payments page: sessions of the participant, or None
    rates_df,                \* the rates, amounts in cents
    pay_pc,                  \* "calc", "start", "rows", "summary" or "done"
    auto_counts_table,       \* what compute_base_rate_counts returned
    auto_detected_counts,    \* the dict the calculator receives
    pay_i,                   \* position of the calculator's loop over the rates
    manual_adds,             \* the number typed into each row
    subtotals,               \* the subtotal shown in each row
    total_base_auto_payment,
    total_manual_add_payment,
    grand_total,             \* the grand total shown
    bm_now,            \* background monitor: datetime.now(pytz.utc), in time units
    session_state,     \* st.session_state of the browser session
    state_file,        \* data/.internal/monitor_state.json
    csv_data,          \* a *.csv exists under data/ outside .internal
    action_signal,     \* data/.internal/action_signal exists
    data_root_exists,  \* the directory data/ exists
    have_csv_data,     \* what manage_auto_delete_timer found in the page run just done
    process_alive,     \* the process has not been killed
    ui_pc,             \* the script thread: "idle", "shutting_down" or "killed"
    browser_open,      \* a browser tab is open: page runs can happen
    monitor_thread,    \* _monitor_thread: 0 for None, else the number of the thread
    alive_threads,     \* the threads for which is_alive() holds
    thread_lock,       \* _thread_lock: 0 when free, else the caller holding it
    stop_monitoring,   \* the event _stop_monitoring is set
    sbt_pc,            \* start_background_thread: the position of each caller
    sbt_calls,         \* how many calls each caller has made
    last_request_times,  \* MetricWireImporter.last_request_times
    rl_now,              \* time.time(), in tenths of a second
    rl_recorded,         \* every time rate_limit has appended so far
    rl_waited,           \* the oldest request when the last call had to wait
    pr_outcomes,         \* patient_request: what each attempt will meet
    pr_token_status,     \* the status the token endpoint answers with
    pr_attempt,          \* the loop variable attempt
    pr_pc,               \* "attempt" or "done"
    pr_headers,          \* the local variable headers
    pr_sent,             \* the headers each request was sent with
    pr_slept,            \* the arguments of time.sleep so far
    pr_result,           \* what the call returned or raised
    question_filter_arg, \* start: the argument question_filter
    question_filter,     \* cls.question_filter
    mw_surveys,          \* the surveys with their questions and submissions
    mw_pc,               \* "start", "import" or "done"
    mw_i,                \* position of the loop over the surveys
    mw_questions,        \* cls._questions
    mw_sessions,         \* cls._sessions
    mw_responses,        \* cls._responses
    sel_sessions_df,          \* payments page: sessions.csv as read
    participant_input_val,    \* the text in the participant input
    matched_ids,              \* the valid IDs that match the text
    selected_participant_id,  \* <<>> for None, else <<the ID>>
    sel_messages,             \* the warnings and errors the run showed
    sel_pc                    \* "start" or "rendered"

condVars == <<cond, sess_responses, cond_qs, pc, sub, idx, target, ret, trace>>

betweenVars == <<hb_value, hb_target, hb_range, hb_pc, hb_result>>

configVars == <<workflows, groups, conditions, cond_questions, tags>>

dataVars == <<sessions, responses>>

runVars == <<tpc, workflows_df, si, wi, session_to_tags, session_tags, runs>>

taggingVars == <<configVars, dataVars, runVars>>

dailyVars == <<dc_sessions, dc_start_date, dc_days, dc_tz, dc_systz,
               dc_reason_filter, dc_pc, dc_daily>>

statsVars == <<st_daily, st_schema, st_start_date, st_today, st_pc,
               st_bonus_days, st_possible, st_completed>>

calcVars == <<all_sessions_df, rates_df, pay_pc, auto_counts_table,
              auto_detected_counts, pay_i, manual_adds, subtotals,
              total_base_auto_payment, total_manual_add_payment, grand_total>>

paymentsVars == <<dailyVars, statsVars, calcVars>>

worldVars == <<session_state, state_file, csv_data, action_signal,
               data_root_exists, have_csv_data>>

threadVars == <<monitor_thread, alive_threads, thread_lock, stop_monitoring,
                sbt_pc, sbt_calls>>

monitorVars == <<bm_now, worldVars, process_alive, ui_pc, browser_open, threadVars>>

rateVars == <<last_request_times, rl_now, rl_recorded, rl_waited>>

requestVars == <<pr_outcomes, pr_token_status, pr_attempt, pr_pc, pr_headers,
                 pr_sent, pr_slept, pr_result>>

importVars == <<question_filter_arg, question_filter, mw_surveys, mw_pc, mw_i,
                mw_questions, mw_sessions, mw_responses>>

downloadVars == <<rateVars, requestVars, importVars>>

selectVars == <<sel_sessions_df, participant_input_val, matched_ids,
                selected_participant_id, sel_messages, sel_pc>>

ioVars == <<monitorVars, downloadVars, selectVars>>

vars == <<condVars, betweenVars, taggingVars, paymentsVars, ioVars>>

\* ------------------------------------------------------------------------
\* Python values
\* ------------------------------------------------------------------------

Str(s) == [t |-> "str", s |-> s, num |-> 0, scale |-> 0]

Flt(n, k) == [t |-> "float", s |-> <<>>, num |-> n, scale |-> k]

NaN == [t |-> "nan", s |-> <<>>, num |-> 0, scale |-> 0]

\* isinstance(v, float): NaN is a float
IsFloat(v) == v.t \in {"float", "nan"}

\* pd.isna(v) on a scalar
IsNa(v) == v.t = "nan"

\* the outcome of evaluating a Python expression: a value or a raised exception
Returns(b) == [raised |-> FALSE, val |-> b]

Raises == [raised |-> TRUE, val |-> FALSE]

Digits == {"0", "1", "2", "3", "4", "5", "6", "7", "8", "9"}

DigitVal(c) ==
    CASE c = "0" -> 0 [] c = "1" -> 1 [] c = "2" -> 2 [] c = "3" -> 3
      [] c = "4" -> 4 [] c = "5" -> 5 [] c = "6" -> 6 [] c = "7" -> 7
      [] c = "8" -> 8 [] c = "9" -> 9

\* code point of a character: Python orders str by code point
Ord(c) ==
    CASE c \in Digits -> 48 + DigitVal(c)
      [] c = " " -> 32 [] c = "(" -> 40 [] c = ")" -> 41 [] c = "+" -> 43
      [] c = "," -> 44 [] c = "-" -> 45 [] c = "." -> 46 [] c = ";" -> 59
      [] c = "A" -> 65 [] c = "H" -> 72 [] c = "N" -> 78 [] c = "S" -> 83
      [] c = "[" -> 91 [] c = "]" -> 93
      [] c = "a" -> 97 [] c = "b" -> 98 [] c = "c" -> 99 [] c = "n" -> 110
      [] c = "x" -> 120
      [] c = "z" -> 122

RECURSIVE StrLess(_, _)
\* a < b on two str
StrLess(a, b) ==
    IF b = <<>> THEN FALSE
    ELSE IF a = <<>> THEN TRUE
    ELSE IF Ord(a[1]) # Ord(b[1]) THEN Ord(a[1]) < Ord(b[1])
    ELSE StrLess(Tail(a), Tail(b))

\* b in a, on two str
IsSubstring(b, a) ==
    \E i \in 1..(Len(a) + 1) :
        /\ i + Len(b) - 1 <= Len(a)
        /\ SubSeq(a, i, i + Len(b) - 1) = b

RECURSIVE Pow10(_)
Pow10(k) == IF k = 0 THEN 1 ELSE 10 * Pow10(k - 1)

RECURSIVE DigitsVal(_)
DigitsVal(s) ==
    IF s = <<>> THEN 0
    ELSE 10 * DigitsVal(SubSeq(s, 1, Len(s) - 1)) + DigitVal(s[Len(s)])

RECURSIVE Normalize(_, _)
\* the same number with no trailing zero in the fraction
Normalize(n, k) ==
    IF k > 0 /\ n % 10 = 0 THEN Normalize(n \div 10, k - 1) ELSE Flt(n, k)

\* s without its sign
Unsigned(s) == IF s # <<>> /\ s[1] \in {"-", "+"} THEN Tail(s) ELSE s

\* digits with at most one decimal point, and at least one digit
IsDecimal(b) ==
    /\ \A i \in DOMAIN b : b[i] \in Digits \/ b[i] = "."
    /\ Cardinality({i \in DOMAIN b : b[i] = "."}) <= 1
    /\ \E i \in DOMAIN b : b[i] \in Digits

\* the digits of b without the point, and the number of digits after it
DigitsOf(b) == SelectSeq(b, LAMBDA c : c # ".")

ScaleOf(b) ==
    IF \A i \in DOMAIN b : b[i] # "." THEN 0
    ELSE Len(b) - (CHOOSE i \in DOMAIN b : b[i] = ".")

\* float(s) succeeds on the str s (otherwise ValueError)
CanFloat(s) == IsDecimal(Unsigned(s))

\* float(s) where it succeeds
FloatOf(s) ==
    Normalize((IF s[1] = "-" THEN 0 - 1 ELSE 1) * DigitsVal(DigitsOf(Unsigned(s))),
              ScaleOf(Unsigned(s)))

\* a <= b taken for a < b
FltLess_or_equal(a, b) == a.num * Pow10(b.scale) <= b.num * Pow10(a.scale)

\* a < b, a = b on two floats that are not NaN
FltLess(a, b) == a.num * Pow10(b.scale) < b.num * Pow10(a.scale)

FltEq(a, b) == a.num * Pow10(b.scale) = b.num * Pow10(a.scale)

\* Python's a == b
PyEq(a, b) ==
    IF a.t = "str" /\ b.t = "str" THEN a.s = b.s
    ELSE IF a.t = "float" /\ b.t = "float" THEN FltEq(a, b)
    ELSE FALSE

\* Python's a < b: TypeError between str and float, False with a NaN
PyLess(a, b) ==
    IF a.t = "str" /\ b.t = "str" THEN Returns(StrLess(a.s, b.s))
    ELSE IF IsFloat(a) /\ IsFloat(b)
         THEN Returns(a.t = "float" /\ b.t = "float" /\ FltLess(a, b))
    ELSE Raises

\* Python's a <= b
PyLessEq(a, b) ==
    IF a.t = "str" /\ b.t = "str" THEN Returns(StrLess(a.s, b.s) \/ a.s = b.s)
    ELSE IF IsFloat(a) /\ IsFloat(b)
         THEN Returns(a.t = "float" /\ b.t = "float"
                      /\ (FltLess(a, b) \/ FltEq(a, b)))
    ELSE Raises

\* ------------------------------------------------------------------------
\* tagging.py: str2float, handle_between, evaluate_condition_logic
\* ------------------------------------------------------------------------

str2float(x) ==
    IF IsFloat(x) THEN x
    ELSE IF CanFloat(x.s) THEN FloatOf(x.s) ELSE x

\* target[1:-1]
RangeInner(tg) == SubSeq(tg, 2, Len(tg) - 1)

\* the parts of inner.split(',') when there are two
SplitAt(inner) == CHOOSE i \in DOMAIN inner : inner[i] = ","

SplitLo(inner) == SubSeq(inner, 1, SplitAt(inner) - 1)

SplitHi(inner) == SubSeq(inner, SplitAt(inner) + 1, Len(inner))

\* lo, hi = target[1:-1].split(','); lo, hi = float(lo), float(hi) succeeds
RangeParses(tg) ==
    /\ Cardinality({i \in DOMAIN RangeInner(tg) : RangeInner(tg)[i] = ","}) = 1
    /\ CanFloat(SplitLo(RangeInner(tg)))
    /\ CanFloat(SplitHi(RangeInner(tg)))

\* the lower bound taken as inclusive whatever the bracket
LowerOk_always_inclusive(value, tg) ==
    PyLessEq(FloatOf(SplitLo(RangeInner(tg))), value).val

\* lines 76, 80-83: ok_lo
LowerOk(value, tg) ==
    IF tg[1] = "[" THEN PyLessEq(FloatOf(SplitLo(RangeInner(tg))), value).val
    ELSE PyLess(FloatOf(SplitLo(RangeInner(tg))), value).val

\* lines 77, 84-87: ok_hi
UpperOk(value, tg) ==
    IF tg[Len(tg)] = "]" THEN PyLessEq(value, FloatOf(SplitHi(RangeInner(tg)))).val
    ELSE PyLess(value, FloatOf(SplitHi(RangeInner(tg)))).val

handle_between(value, tgt) ==
    \* target[0] on a float is a TypeError, on '' an IndexError
    IF tgt.t # "str" \/ tgt.s = <<>> THEN Raises
    \* unpacking the split or float() raises ValueError
    ELSE IF ~RangeParses(tgt.s) THEN Raises
    \* value >= lo on a str value: TypeError
    ELSE IF ~IsFloat(value) THEN Raises
    ELSE Returns(LowerOk(value, tgt.s) /\ UpperOk(value, tgt.s))

Operators ==
    {"==", "!=", "<", "<=", ">", ">=", "contains", "not_contains",
     "empty", "not_empty", "between"}

\* ops[operator](a, b): the lambda's outcome, exceptions included
ApplyOp(operator, a, b) ==
    CASE operator = "==" -> Returns(PyEq(a, b))
      [] operator = "!=" -> Returns(~PyEq(a, b))
      [] operator = "<"  -> PyLess(a, b)
      [] operator = "<=" -> PyLessEq(a, b)
      [] operator = ">"  -> PyLess(b, a)
      [] operator = ">=" -> PyLessEq(b, a)
      [] operator = "contains" ->
            IF a.t # "str" THEN Returns(FALSE)
            ELSE IF b.t # "str" THEN Raises
            ELSE Returns(IsSubstring(b.s, a.s))
      [] operator = "not_contains" ->
            IF a.t # "str" THEN Returns(FALSE)
            ELSE IF b.t # "str" THEN Raises
            ELSE Returns(~IsSubstring(b.s, a.s))
      [] operator = "empty" -> Returns(IsNa(a) \/ PyEq(a, Str(<<>>)))
      [] operator = "not_empty" -> Returns(~(IsNa(a) \/ PyEq(a, Str(<<>>))))
      [] operator = "between" -> handle_between(a, b)

\* evaluate_condition_logic without the try/except around func(value, target)
evaluate_condition_logic_uncaught(value, operator, tgt) ==
    IF operator \notin Operators THEN Returns(FALSE)
    ELSE ApplyOp(operator, value, tgt)

\* the outcome of evaluate_condition_logic: an exception of func(value,
\* target) is caught and False returned
evaluate_condition_logic(value, operator, tgt) ==
    IF operator \notin Operators THEN Returns(FALSE)
    ELSE IF ApplyOp(operator, value, tgt).raised THEN Returns(FALSE)
    ELSE ApplyOp(operator, value, tgt)

\* ------------------------------------------------------------------------
\* tagging.py: eval_single_condition
\* ------------------------------------------------------------------------

\* skip_behavior compared with the number 1: never equal to a str
SkipTrue_compares_number(c) == FALSE

\* skip_true = cond.skip_behavior == '1'
SkipTrue(c) == c.skip_behavior = "1"

\* sess_responses[sess_responses['question_name'].isin(cond_qs)]
FilterQuestions(resps, qs) ==
    SelectSeq(resps, LAMBDA r : r.question_name \in qs)

\* the early return left out
VacuouslyEmpty_never(op, s) == FALSE

\* if op == 'empty' and sub.empty
VacuouslyEmpty(op, s) == op = "empty" /\ s = <<>>

\* the target never converted to a number
ConvertTarget_never(op, val_conv, tgt) == tgt

\* if op != 'between' and isinstance(val_conv, float): target = str2float(target)
ConvertTarget(op, val_conv, tgt) ==
    IF op # "between" /\ IsFloat(val_conv) THEN str2float(tgt) ELSE tgt

\* one response that is neither skipped nor not_seen, against target tgt:
\* the target the comparison uses and the loop goes on with
NextTarget(response, op, tgt) ==
    ConvertTarget(op, str2float(response.content), tgt)

\* evaluate_condition_logic(val_conv, op, target) on that response
EvaluateResponse(response, op, tgt) ==
    evaluate_condition_logic(str2float(response.content), op,
                             NextTarget(response, op, tgt))

\* what one pass of the for loop does: "return" (True), "continue", or
\* "raise" when an exception escapes
LoopDo(response, op, skip_true, tgt) ==
    IF response.skipped THEN (IF skip_true THEN "return" ELSE "continue")
    ELSE IF response.not_seen THEN "continue"
    ELSE IF EvaluateResponse(response, op, tgt).raised THEN "raise"
    ELSE IF EvaluateResponse(response, op, tgt).val THEN "return"
    ELSE "continue"

\* the value of target after that pass
LoopTarget(response, op, skip_true, tgt) ==
    IF response.skipped \/ response.not_seen THEN tgt
    ELSE NextTarget(response, op, tgt)

RECURSIVE Loop(_, _, _, _, _)
\* the for loop from position i on; falls through to return False
Loop(s, i, op, skip_true, tgt) ==
    IF i > Len(s) THEN Returns(FALSE)
    ELSE IF LoopDo(s[i], op, skip_true, tgt) = "return" THEN Returns(TRUE)
    ELSE IF LoopDo(s[i], op, skip_true, tgt) = "raise" THEN Raises
    ELSE Loop(s, i + 1, op, skip_true, LoopTarget(s[i], op, skip_true, tgt))

\* eval_single_condition as a function of its arguments
eval_single_condition(c, resps, qs) ==
    IF VacuouslyEmpty(c.operator, FilterQuestions(resps, qs)) THEN Returns(TRUE)
    ELSE Loop(FilterQuestions(resps, qs), 1, c.operator, SkipTrue(c), c.value)

\* lines 99-106: filter, and the early return
Filter ==
    /\ pc = "start"
    /\ sub' = FilterQuestions(sess_responses, cond_qs)
    /\ target' = cond.value
    /\ idx' = 1
    /\ IF VacuouslyEmpty(cond.operator, sub')
       THEN pc' = "done" /\ ret' = TRUE
       ELSE pc' = "loop" /\ ret' = ret
    /\ UNCHANGED <<cond, sess_responses, cond_qs, trace>>
    /\ UNCHANGED <<betweenVars, taggingVars, paymentsVars, ioVars>>

\* the pass of the loop over the response at idx
CurrentDo == LoopDo(sub[idx], cond.operator, SkipTrue(cond), target)

\* whether func(value, target) raises on the response at idx
CurrentRaises ==
    /\ cond.operator \in Operators
    /\ ApplyOp(cond.operator, str2float(sub[idx].content),
               NextTarget(sub[idx], cond.operator, target)).raised

\* lines 109-113: a skipped response
IterSkipped ==
    /\ pc = "loop" /\ idx <= Len(sub)
    /\ sub[idx].skipped
    /\ trace' = Append(trace, IF CurrentDo = "return" THEN "skip_true" ELSE "skip")
    /\ pc' = IF CurrentDo = "return" THEN "done" ELSE "loop"
    /\ ret' = IF CurrentDo = "return" THEN TRUE ELSE ret
    /\ idx' = IF CurrentDo = "return" THEN idx ELSE idx + 1
    /\ UNCHANGED <<cond, sess_responses, cond_qs, sub, target>>
    /\ UNCHANGED <<betweenVars, taggingVars, paymentsVars, ioVars>>

\* lines 114-115: a response that was not seen
IterNotSeen ==
    /\ pc = "loop" /\ idx <= Len(sub)
    /\ ~sub[idx].skipped /\ sub[idx].not_seen
    /\ trace' = Append(trace, "not_seen")
    /\ idx' = idx + 1
    /\ UNCHANGED <<cond, sess_responses, cond_qs, pc, sub, target, ret>>
    /\ UNCHANGED <<betweenVars, taggingVars, paymentsVars, ioVars>>

\* lines 116-122: a response with content; an exception that escapes
\* evaluate_condition_logic ends the call
IterEvaluate ==
    /\ pc = "loop" /\ idx <= Len(sub)
    /\ ~sub[idx].skipped /\ ~sub[idx].not_seen
    /\ target' = LoopTarget(sub[idx], cond.operator, SkipTrue(cond), target)
    /\ pc' = IF CurrentDo = "raise" THEN "aborted"
             ELSE IF CurrentDo = "return" THEN "done" ELSE "loop"
    /\ ret' = IF CurrentDo = "return" THEN TRUE ELSE ret
    /\ idx' = IF CurrentDo = "continue" THEN idx + 1 ELSE idx
    /\ trace' = Append(trace, IF CurrentDo = "raise" THEN "uncaught"
                              ELSE IF CurrentDo = "return" THEN "true"
                              ELSE IF CurrentRaises THEN "caught" ELSE "false")
    /\ UNCHANGED <<cond, sess_responses, cond_qs, sub>>
    /\ UNCHANGED <<betweenVars, taggingVars, paymentsVars, ioVars>>

\* line 123: return False
Exhausted ==
    /\ pc = "loop" /\ idx > Len(sub)
    /\ pc' = "done" /\ ret' = FALSE
    /\ UNCHANGED <<cond, sess_responses, cond_qs, sub, idx, target, trace>>
    /\ UNCHANGED <<betweenVars, taggingVars, paymentsVars, ioVars>>


\* ------------------------------------------------------------------------
\* The inputs eval_single_condition is run on
\* ------------------------------------------------------------------------

\* the longest list of responses of one session
MaxResponses == 2

SeqsUpTo(S, n) == UNION {[1..k -> S] : k \in 0..n}

QuestionNames == {"q1", "q2"}

\* response contents as read from responses.csv: '9', '10', 'abc', empty
SampleContents ==
    {Str(<<"9">>), Str(<<"1", "0">>), Str(<<"a", "b", "c">>), NaN}

Answer(sid, q, c) ==
    [session_id |-> sid, question_name |-> q, content |-> c,
     skipped |-> FALSE, not_seen |-> FALSE]

\* download.py marks a skipped answer and an answer never shown by its content
SkippedAnswer(sid, q) ==
    [session_id |-> sid, question_name |-> q, content |-> Str(<<"S">>),
     skipped |-> TRUE, not_seen |-> FALSE]

NotSeenAnswer(sid, q) ==
    [session_id |-> sid, question_name |-> q, content |-> Str(<<"N">>),
     skipped |-> FALSE, not_seen |-> TRUE]

SampleResponses ==
    {Answer("s1", q, c) : q \in QuestionNames, c \in SampleContents}
    \cup {SkippedAnswer("s1", "q1"), NotSeenAnswer("s1", "q1")}

\* comparison values as read from conditions.csv (dtype=str): '9', 'b',
\* '[3,9)', '(3,9]', the malformed range '[3,b]', and an empty cell
SampleValues ==
    {Str(<<"9">>), Str(<<"b">>),
     Str(<<"[", "3", ",", "9", ")">>), Str(<<"(", "3", ",", "9", "]">>),
     Str(<<"[", "3", ",", "b", "]">>), NaN}

\* the operators of the lookup table and one that is not in it
SampleOperators == Operators \cup {"regex"}

SampleConditions ==
    [id : {"c1"}, group_id : {"g1"}, operator : SampleOperators,
     value : SampleValues, skip_behavior : {"0", "1"}]

SampleQuestionSets == {{}, {"q1"}, {"q1", "q2"}}

\* the state of the parts a specification does not run
CondIdle ==
    /\ cond = [id |-> "c1", group_id |-> "g1", operator |-> "==",
               value |-> NaN, skip_behavior |-> "0"]
    /\ sess_responses = <<>>
    /\ cond_qs = {}
    /\ pc = "done"
    /\ sub = <<>>
    /\ idx = 1
    /\ target = NaN
    /\ ret = FALSE
    /\ trace = <<>>

BetweenIdle ==
    /\ hb_value = NaN
    /\ hb_target = NaN
    /\ hb_range = <<>>
    /\ hb_pc = "done"
    /\ hb_result = Returns(FALSE)

TaggingIdle ==
    /\ sessions = <<>> /\ responses = <<>>
    /\ workflows = <<>> /\ groups = <<>> /\ conditions = <<>>
    /\ cond_questions = <<>> /\ tags = <<>>
    /\ tpc = "done"
    /\ workflows_df = <<>>
    /\ si = 1 /\ wi = 1
    /\ session_to_tags = <<>>
    /\ session_tags = <<>>
    /\ runs = 1

DailyIdle ==
    /\ dc_sessions = [columns |-> {}, rows |-> <<>>]
    /\ dc_start_date = 0 /\ dc_days = 0
    /\ dc_tz = 0 /\ dc_systz = 0
    /\ dc_reason_filter = NaN
    /\ dc_pc = "done"
    /\ dc_daily = <<>>

StatsIdle ==
    /\ st_daily = [columns |-> {}, rows |-> <<>>]
    /\ st_schema = [num_days |-> 0, num_possible_per_day |-> 0, bonus_threshold |-> 0]
    /\ st_start_date = 0 /\ st_today = 0
    /\ st_pc = "done"
    /\ st_bonus_days = 0 /\ st_possible = 0 /\ st_completed = 0

CalcIdle ==
    /\ all_sessions_df = [columns |-> {}, rows |-> <<>>]
    /\ rates_df = <<>>
    /\ pay_pc = "done"
    /\ auto_counts_table = <<>>
    /\ auto_detected_counts = <<>>
    /\ pay_i = 1
    /\ manual_adds = <<>> /\ subtotals = <<>>
    /\ total_base_auto_payment = 0 /\ total_manual_add_payment = 0
    /\ grand_total = 0

PaymentsIdle == DailyIdle /\ StatsIdle /\ CalcIdle

\* st.session_state before init_background_monitor has filled it
NoSessionState ==
    [set |-> FALSE, auto_delete_minutes |-> 0, delete_deadline |-> <<>>,
     app_start_time |-> 0, auto_quit_enabled |-> FALSE, auto_quit_minutes |-> 0]

\* monitor_state.json does not exist
NoStateFile ==
    [exists |-> FALSE, delete_deadline |-> <<>>, app_start_time |-> 0,
     auto_quit_enabled |-> FALSE, auto_quit_minutes |-> 0]

MaxCallers == 2

Callers == 1..MaxCallers

MonitorIdle ==
    /\ bm_now = 0
    /\ session_state = NoSessionState
    /\ state_file = NoStateFile
    /\ csv_data = FALSE /\ action_signal = FALSE /\ data_root_exists = FALSE
    /\ have_csv_data = FALSE
    /\ process_alive = TRUE
    /\ ui_pc = "idle"
    /\ browser_open = TRUE
    /\ monitor_thread = 0
    /\ alive_threads = {}
    /\ thread_lock = 0
    /\ stop_monitoring = FALSE
    /\ sbt_pc = [c \in Callers |-> "idle"]
    /\ sbt_calls = [c \in Callers |-> 0]

RateIdle ==
    /\ last_request_times = <<>>
    /\ rl_now = 0
    /\ rl_recorded = <<>>
    /\ rl_waited = <<>>

RequestIdle ==
    /\ pr_outcomes = <<>>
    /\ pr_token_status = 200
    /\ pr_attempt = 1
    /\ pr_pc = "done"
    /\ pr_headers = "initial"
    /\ pr_sent = <<>> /\ pr_slept = <<>>
    /\ pr_result = [kind |-> "none", resp |-> "", headers |-> "", exc |-> ""]

ImportIdle ==
    /\ question_filter_arg = [given |-> FALSE, names |-> {}]
    /\ question_filter = {}
    /\ mw_surveys = <<>>
    /\ mw_pc = "done"
    /\ mw_i = 1
    /\ mw_questions = <<>> /\ mw_sessions = <<>> /\ mw_responses = <<>>

DownloadIdle == RateIdle /\ RequestIdle /\ ImportIdle

\* the Payments page has not been opened
SelectIdle ==
    /\ sel_sessions_df = [columns |-> {}, rows |-> <<>>]
    /\ participant_input_val = <<>>
    /\ matched_ids = <<>>
    /\ selected_participant_id = <<>>
    /\ sel_messages = {}
    /\ sel_pc = "rendered"

IoIdle == MonitorIdle /\ DownloadIdle /\ SelectIdle

InitCond ==
    /\ cond \in SampleConditions
    /\ sess_responses \in SeqsUpTo(SampleResponses, MaxResponses)
    /\ cond_qs \in SampleQuestionSets
    /\ pc = "start"
    /\ sub = <<>>
    /\ idx = 1
    /\ target = cond.value
    /\ ret = FALSE
    /\ trace = <<>>
    /\ BetweenIdle
    /\ TaggingIdle
    /\ PaymentsIdle
    /\ IoIdle

NextCond ==
    \/ Filter
    \/ IterSkipped
    \/ IterNotSeen
    \/ IterEvaluate
    \/ Exhausted

SpecCond == InitCond /\ [][NextCond]_vars

\* ------------------------------------------------------------------------
\* handle_between called on its own (test_tagging.py calls it this way)
\* ------------------------------------------------------------------------

\* decimal texts and the floats they denote
SampleNumbers ==
    {[text |-> <<"-", "1">>, v |-> Flt(0 - 1, 0)],
     [text |-> <<"0", ".", "9">>, v |-> Flt(9, 1)],
     [text |-> <<"1">>, v |-> Flt(1, 0)],
     [text |-> <<"1", ".", "0">>, v |-> Flt(1, 0)],
     [text |-> <<"2", ".", "5">>, v |-> Flt(25, 1)],
     [text |-> <<"5">>, v |-> Flt(5, 0)],
     [text |-> <<"5", ".", "1">>, v |-> Flt(51, 1)]}

SampleRanges ==
    [lb : {"[", "("}, lo : SampleNumbers, hi : SampleNumbers, rb : {"]", ")"}]

\* the range string '[lo,hi)' of a bracket pair and two bounds
RangeString(r) == Str(<<r.lb>> \o r.lo.text \o <<",">> \o r.hi.text \o <<r.rb>>)

InitBetween ==
    /\ hb_range \in SampleRanges
    /\ hb_target = RangeString(hb_range)
    /\ hb_value \in {n.v : n \in SampleNumbers}
    /\ hb_pc = "call"
    /\ hb_result = Returns(FALSE)
    /\ CondIdle
    /\ TaggingIdle
    /\ PaymentsIdle
    /\ IoIdle

CallHandleBetween ==
    /\ hb_pc = "call"
    /\ hb_result' = handle_between(hb_value, hb_target)
    /\ hb_pc' = "done"
    /\ UNCHANGED <<hb_value, hb_target, hb_range, condVars, ioVars, taggingVars, paymentsVars>>

NextBetween == CallHandleBetween

SpecBetween == InitBetween /\ [][NextBetween]_vars

\* ------------------------------------------------------------------------
\* tagging.py: eval_condition_group, eval_workflow, run_tagging
\* ------------------------------------------------------------------------

RECURSIVE PyAll(_)
\* Python's all() on a list of bools
PyAll(results) ==
    IF results = <<>> THEN TRUE ELSE results[1] /\ PyAll(Tail(results))

RECURSIVE PyAny(_)
\* Python's any() on a list of bools
PyAny(results) ==
    IF results = <<>> THEN FALSE ELSE results[1] \/ PyAny(Tail(results))

\* cond_questions[cond_questions.condition_id == cond.id]['question_name']
QuestionsOf(cqs, c) ==
    {cqs[i].question_name : i \in {j \in DOMAIN cqs : cqs[j].condition_id = c.id}}

\* conditions[conditions.group_id == grp_id]
ConditionsOf(group, conds) ==
    SelectSeq(conds, LAMBDA c : c.group_id = group.id)

\* the list results of eval_condition_group
ConditionResults(subset, cqs, resps) ==
    [i \in DOMAIN subset |->
        eval_single_condition(subset[i], resps, QuestionsOf(cqs, subset[i])).val]

\* the results combined with any() whatever the operator
eval_condition_group_always_any(group, conds, cqs, resps) ==
    PyAny(ConditionResults(ConditionsOf(group, conds), cqs, resps))

eval_condition_group(group, conds, cqs, resps) ==
    IF group.logical_operator = "AND"
    THEN PyAll(ConditionResults(ConditionsOf(group, conds), cqs, resps))
    ELSE PyAny(ConditionResults(ConditionsOf(group, conds), cqs, resps))

\* all_groups[all_groups.workflow_id == workflow_row.id]
GroupsOf(workflow_row, all_groups) ==
    SelectSeq(all_groups, LAMBDA g : g.workflow_id = workflow_row.id)

\* the list group_results of eval_workflow
GroupResults(wf_groups, conds, cqs, resps) ==
    [i \in DOMAIN wf_groups |-> eval_condition_group(wf_groups[i], conds, cqs, resps)]

\* eval_workflow without the early return on a workflow that has no groups
eval_workflow_no_early_return(workflow_row, all_groups, conds, cqs, resps) ==
    IF workflow_row.logical_operator = "AND"
    THEN PyAll(GroupResults(GroupsOf(workflow_row, all_groups), conds, cqs, resps))
    ELSE PyAny(GroupResults(GroupsOf(workflow_row, all_groups), conds, cqs, resps))

eval_workflow(workflow_row, all_groups, conds, cqs, resps) ==
    IF GroupsOf(workflow_row, all_groups) = <<>> THEN FALSE
    ELSE IF workflow_row.logical_operator = "AND"
    THEN PyAll(GroupResults(GroupsOf(workflow_row, all_groups), conds, cqs, resps))
    ELSE PyAny(GroupResults(GroupsOf(workflow_row, all_groups), conds, cqs, resps))

\* every workflow taken, whatever its workflow_type
TagSessionWorkflows_all_types(wfs) == wfs

\* defs['workflows'][defs['workflows'].workflow_type == '1']
TagSessionWorkflows(wfs) == SelectSeq(wfs, LAMBDA w : w.workflow_type = "1")

\* the whole response table, whatever the session
ResponsesOf_unfiltered(resps, sid) == resps

\* responses_df[responses_df.session_id == sid]
ResponsesOf(resps, sid) == SelectSeq(resps, LAMBDA r : r.session_id = sid)

\* tags_df.loc[tag_id, 'title']
TitleOf(tgs, tag_id) == tgs[CHOOSE i \in DOMAIN tgs : tgs[i].id = tag_id].title

RECURSIVE Join(_)
\* ";".join(titles)
Join(titles) ==
    IF titles = <<>> THEN <<>>
    ELSE IF Len(titles) = 1 THEN titles[1]
    ELSE titles[1] \o <<";">> \o Join(Tail(titles))

RECURSIVE Concat(_)
\* the lists of a list of lists, one after the other
Concat(lists) == IF lists = <<>> THEN <<>> ELSE lists[1] \o Concat(Tail(lists))

RECURSIVE session_titles(_, _, _, _, _, _)
\* lines 202-209: the titles one pass over the workflows appends for the
\* responses sess_resps
session_titles(wfs, grps, conds, cqs, tgs, sess_resps) ==
    IF wfs = <<>> THEN <<>>
    ELSE (IF eval_workflow(wfs[1], grps, conds, cqs, sess_resps)
          THEN <<TitleOf(tgs, wfs[1].tag_id)>>
          ELSE <<>>)
         \o session_titles(Tail(wfs), grps, conds, cqs, tgs, sess_resps)

\* session_to_tags[sid] after the loops: one pass for every row of
\* sessions.csv that carries sid
TagsOf(sid, sess, resps, wfs, grps, conds, cqs, tgs) ==
    Concat([k \in DOMAIN SelectSeq(sess, LAMBDA row : row.session_id = sid) |->
               session_titles(TagSessionWorkflows(wfs), grps, conds, cqs, tgs,
                              ResponsesOf(resps, sid))])

\* the session_tags column run_tagging writes for these tables
run_tagging(sess, resps, wfs, grps, conds, cqs, tgs) ==
    [i \in DOMAIN sess |->
        Join(TagsOf(sess[i].session_id, sess, resps, wfs, grps, conds, cqs, tgs))]

\* every session starts the run with the tags tagged_sessions.csv holds
NewTagLists_resumes_file(sess) ==
    [sid \in {sess[i].session_id : i \in DOMAIN sess} |->
        IF session_tags = <<>> THEN <<>>
        ELSE <<session_tags[CHOOSE i \in DOMAIN sess : sess[i].session_id = sid]>>]

\* line 193: {str(sid): [] for sid in sessions_df.session_id.astype(str)}
NewTagLists(sess) == [sid \in {sess[i].session_id : i \in DOMAIN sess} |-> <<>>]

\* lines 183-193: load the tables, keep the tagging workflows, start with
\* an empty tag list per session
Load ==
    /\ tpc = "load"
    /\ workflows_df' = TagSessionWorkflows(workflows)
    /\ session_to_tags' = NewTagLists(sessions)
    /\ si' = 1 /\ wi' = 1
    /\ tpc' = IF sessions = <<>> THEN "write" ELSE "loop"
    /\ UNCHANGED <<session_tags, runs, configVars, dataVars, condVars, ioVars, betweenVars, paymentsVars>>

\* the workflow at wi fires on the responses of the session at si
Fires ==
    eval_workflow(workflows_df[wi], groups, conditions, cond_questions,
                  ResponsesOf(responses, sessions[si].session_id))

\* lines 202-209: one workflow on the session at si
CheckWorkflow ==
    /\ tpc = "loop" /\ wi <= Len(workflows_df)
    /\ session_to_tags' =
          IF Fires
          THEN [session_to_tags EXCEPT ![sessions[si].session_id] =
                    Append(@, TitleOf(tags, workflows_df[wi].tag_id))]
          ELSE session_to_tags
    /\ wi' = wi + 1
    /\ UNCHANGED <<tpc, workflows_df, si, session_tags, runs>>
    /\ UNCHANGED <<configVars, dataVars, condVars, ioVars, betweenVars, paymentsVars>>

\* line 196: the next session, or the end of the loop
NextSession ==
    /\ tpc = "loop" /\ wi > Len(workflows_df)
    /\ si' = si + 1 /\ wi' = 1
    /\ tpc' = IF si = Len(sessions) THEN "write" ELSE "loop"
    /\ UNCHANGED <<workflows_df, session_to_tags, session_tags, runs>>
    /\ UNCHANGED <<configVars, dataVars, condVars, ioVars, betweenVars, paymentsVars>>

\* how many times run_tagging is called on the same files
MaxRuns == 2

\* lines 212-217: the session_tags column of tagged_sessions.csv
WriteTags ==
    /\ tpc = "write"
    /\ session_tags' = [i \in DOMAIN sessions |->
                           Join(session_to_tags[sessions[i].session_id])]
    /\ tpc' = "done"
    /\ UNCHANGED <<workflows_df, si, wi, session_to_tags, runs>>
    /\ UNCHANGED <<configVars, dataVars, condVars, ioVars, betweenVars, paymentsVars>>

\* run_tagging is called again on the same files: its locals are new, the
\* tagged_sessions.csv of the run before is still on disk
Rerun ==
    /\ tpc = "done" /\ runs < MaxRuns
    /\ runs' = runs + 1
    /\ tpc' = "load"
    /\ workflows_df' = <<>>
    /\ si' = 1 /\ wi' = 1
    /\ session_to_tags' = <<>>
    /\ UNCHANGED <<session_tags, configVars, dataVars, condVars, ioVars, betweenVars, paymentsVars>>

\* ------------------------------------------------------------------------
\* The studies run_tagging is run on
\* ------------------------------------------------------------------------

\* the number of sessions of the study
MaxSessions == 2

SessionIds == SubSeq(<<"s1", "s2", "s3", "s4">>, 1, MaxSessions)

LogicalOperators == {"AND", "OR"}

\* two workflows; the second tag of tags.csv belongs to the first workflow
SampleWorkflows ==
    {<<[id |-> "w1", workflow_type |-> t1, logical_operator |-> o1, tag_id |-> "t2"],
       [id |-> "w2", workflow_type |-> t2, logical_operator |-> o2, tag_id |-> "t1"]>> :
        t1 \in {"1", "2"}, t2 \in {"1", "2"},
        o1 \in LogicalOperators, o2 \in LogicalOperators}

\* two groups: the first in the first workflow, the second in either, so
\* that the second workflow has one group or none
SampleGroups ==
    {<<[id |-> "g1", workflow_id |-> "w1", logical_operator |-> o1],
       [id |-> "g2", workflow_id |-> v2, logical_operator |-> o2]>> :
        v2 \in {"w1", "w2"}, o1 \in LogicalOperators, o2 \in LogicalOperators}

Condition(id, g, op, v) ==
    [id |-> id, group_id |-> g, operator |-> op, value |-> v, skip_behavior |-> "0"]

\* q1 == 9 in the first group, q1 > 9 and q2 empty each in either group, so
\* that the second group has two conditions, one or none
SampleConditionTables ==
    {<<Condition("c1", "g1", "==", Str(<<"9">>)),
       Condition("c2", b, ">", Str(<<"9">>)),
       Condition("c3", c, "empty", NaN)>> :
        b \in {"g1", "g2"}, c \in {"g1", "g2"}}

SampleConditionQuestions ==
    <<[condition_id |-> "c1", question_name |-> "q1"],
      [condition_id |-> "c2", question_name |-> "q1"],
      [condition_id |-> "c3", question_name |-> "q2"]>>

SampleTags ==
    <<[id |-> "t1", title |-> <<"N">>], [id |-> "t2", title |-> <<"H">>]>>

\* what one session answered
SessionAnswers(sid) ==
    {<<>>,
     <<Answer(sid, "q1", Str(<<"9">>))>>,
     <<Answer(sid, "q1", Str(<<"1", "0">>))>>,
     <<Answer(sid, "q2", Str(<<"a", "b", "c">>))>>}

\* responses.csv: the answers of the sessions, session after session
SampleResponseTables ==
    {Concat(f) : f \in {g \in [DOMAIN SessionIds -> UNION {SessionAnswers(SessionIds[i]) : i \in DOMAIN SessionIds}] :
                            \A i \in DOMAIN SessionIds : g[i] \in SessionAnswers(SessionIds[i])}}

InitTagging ==
    /\ sessions = [i \in DOMAIN SessionIds |-> [session_id |-> SessionIds[i]]]
    /\ responses \in SampleResponseTables
    /\ workflows \in SampleWorkflows
    /\ groups \in SampleGroups
    /\ conditions \in SampleConditionTables
    /\ cond_questions = SampleConditionQuestions
    /\ tags = SampleTags
    /\ tpc = "load"
    /\ workflows_df = <<>>
    /\ si = 1 /\ wi = 1
    /\ session_to_tags = <<>>
    /\ session_tags = <<>>
    /\ runs = 1
    /\ CondIdle
    /\ BetweenIdle
    /\ PaymentsIdle
    /\ IoIdle

NextTagging ==
    \/ Load
    \/ CheckWorkflow
    \/ NextSession
    \/ WriteTags

SpecTagging == InitTagging /\ [][NextTagging]_vars

\* ------------------------------------------------------------------------
\* The study of tests/test_tagging.py
\* ------------------------------------------------------------------------

FixtureSessionIds == <<"s1", "s2", "s3", "s4", "s5">>

\* session_response_map: what each session answered to q_intent and q_urge
FixtureIntent == <<"0", "1", "0", "8", "1">>

FixtureUrge == <<"0", "5", "1", "0", "8">>

\* the two rows of session i in responses.csv, in either order; the cell is
\* a whole number, and float() of it is float() of its text
FixtureRows(i) ==
    {<<Answer(FixtureSessionIds[i], "q_intent", Str(<<FixtureIntent[i]>>)),
       Answer(FixtureSessionIds[i], "q_urge", Str(<<FixtureUrge[i]>>))>>,
     <<Answer(FixtureSessionIds[i], "q_urge", Str(<<FixtureUrge[i]>>)),
       Answer(FixtureSessionIds[i], "q_intent", Str(<<FixtureIntent[i]>>))>>}

FixtureResponseTables ==
    {Concat(f) : f \in {g \in [DOMAIN FixtureSessionIds ->
                                  UNION {FixtureRows(i) : i \in DOMAIN FixtureSessionIds}] :
                            \A i \in DOMAIN FixtureSessionIds : g[i] \in FixtureRows(i)}}

NoRisk == <<"N", "o", " ", "r", "i", "s", "k">>

SomeRisk == <<"S", "o", "m", "e", " ", "r", "i", "s", "k">>

HighRisk == <<"H", "i", "g", "h", " ", "r", "i", "s", "k">>

FixtureTags ==
    <<[id |-> "tag_no", title |-> NoRisk],
      [id |-> "tag_some", title |-> SomeRisk],
      [id |-> "tag_high", title |-> HighRisk]>>

FixtureWorkflows ==
    <<[id |-> "wf_no", workflow_type |-> "1", logical_operator |-> "AND", tag_id |-> "tag_no"],
      [id |-> "wf_some", workflow_type |-> "1", logical_operator |-> "OR", tag_id |-> "tag_some"],
      [id |-> "wf_high", workflow_type |-> "1", logical_operator |-> "OR", tag_id |-> "tag_high"]>>

FixtureGroups ==
    <<[id |-> "grp_no", workflow_id |-> "wf_no", logical_operator |-> "AND"],
      [id |-> "grp_s1", workflow_id |-> "wf_some", logical_operator |-> "AND"],
      [id |-> "grp_s2", workflow_id |-> "wf_some", logical_operator |-> "AND"],
      [id |-> "grp_h1", workflow_id |-> "wf_high", logical_operator |-> "AND"],
      [id |-> "grp_h2", workflow_id |-> "wf_high", logical_operator |-> "AND"]>>

FixtureConditions ==
    <<Condition("cond1", "grp_no", "==", Str(<<"0">>)),
      Condition("cond2", "grp_no", "==", Str(<<"0">>)),
      Condition("cond3", "grp_s1", ">", Str(<<"0">>)),
      Condition("cond4", "grp_s1", "<", Str(<<"8">>)),
      Condition("cond5", "grp_s1", "<", Str(<<"8">>)),
      Condition("cond6", "grp_s2", "==", Str(<<"0">>)),
      Condition("cond7", "grp_s2", ">", Str(<<"0">>)),
      Condition("cond8", "grp_h1", ">=", Str(<<"8">>)),
      Condition("cond9", "grp_h2", ">", Str(<<"7">>)),
      Condition("cond10", "grp_h2", ">", Str(<<"0">>))>>

FixtureConditionQuestions ==
    [k \in 1..6 |-> [condition_id |-> <<"cond1", "cond3", "cond4", "cond6", "cond8", "cond10">>[k],
                     question_name |-> "q_intent"]]
    \o [k \in 1..4 |-> [condition_id |-> <<"cond2", "cond5", "cond7", "cond9">>[k],
                        question_name |-> "q_urge"]]

InitFixture ==
    /\ sessions = [i \in DOMAIN FixtureSessionIds |-> [session_id |-> FixtureSessionIds[i]]]
    /\ responses \in FixtureResponseTables
    /\ workflows = FixtureWorkflows
    /\ groups = FixtureGroups
    /\ conditions = FixtureConditions
    /\ cond_questions = FixtureConditionQuestions
    /\ tags = FixtureTags
    /\ tpc = "load"
    /\ workflows_df = <<>>
    /\ si = 1 /\ wi = 1
    /\ session_to_tags = <<>>
    /\ session_tags = <<>>
    /\ runs = 1
    /\ CondIdle
    /\ BetweenIdle
    /\ PaymentsIdle
    /\ IoIdle

\* run_tagging on the study of the test
SpecFixture == InitFixture /\ [][NextTagging]_vars

NextRerun ==
    \/ NextTagging
    \/ Rerun

\* run_tagging called MaxRuns times on one study
SpecRerun == InitTagging /\ [][NextRerun]_vars

Spec == SpecTagging

\* ------------------------------------------------------------------------
\* workflows/payments.py: compute_daily_counts
\*
\* A date is a day number, an instant a whole hour since hour 0 of day 0 in
\* UTC, a timezone its hours east of UTC (no change of offset inside the
\* window): the midnight that starts day d in a zone is the instant
\* d * 24 - zone.
\* ------------------------------------------------------------------------

\* Python's None
None == [t |-> "none", s |-> <<>>, num |-> 0, scale |-> 0]

UpperCase ==
    <<"A", "B", "C", "D", "E", "F", "G", "H", "I", "J", "K", "L", "M",
      "N", "O", "P", "Q", "R", "S", "T", "U", "V", "W", "X", "Y", "Z">>

LowerCase ==
    <<"a", "b", "c", "d", "e", "f", "g", "h", "i", "j", "k", "l", "m",
      "n", "o", "p", "q", "r", "s", "t", "u", "v", "w", "x", "y", "z">>

\* str.lower()
Lower(c) ==
    IF \E i \in DOMAIN UpperCase : UpperCase[i] = c
    THEN LowerCase[CHOOSE i \in DOMAIN UpperCase : UpperCase[i] = c]
    ELSE c

LowerStr(s) == [i \in DOMAIN s |-> Lower(s[i])]

\* Series.astype(str) on one cell: a missing cell becomes the text 'nan'
astype_str(v) == IF IsNa(v) THEN <<"n", "a", "n">> ELSE v.s

\* str.contains(pat, case=False) with its default regex=True, for patterns
\* of letters, digits, spaces and '.': '.' stands for any one character
RegexContains(pat, text) ==
    \E i \in 0..(Len(text) - Len(pat)) :
        \A k \in 1..Len(pat) :
            pat[k] = "." \/ Lower(pat[k]) = Lower(text[i + k])

\* lines 133-135: the rows from win_start to win_end; the naive datetimes
\* of datetime.combine are read by astimezone as times of the machine
Windowed(rows, start_date, days, systz) ==
    SelectSeq(rows, LAMBDA r :
        /\ r.local_ts >= start_date * 24 - systz
        /\ r.local_ts < (start_date + days) * 24 - systz)

\* lines 137-139: the rows whose survey name matches reason_filter
ReasonFiltered(rows, reason_filter) ==
    IF reason_filter.t = "str" /\ reason_filter.s # <<>>
    THEN SelectSeq(rows, LAMBDA r :
            RegexContains(reason_filter.s, astype_str(r.survey_name)))
    ELSE rows

\* line 143: local_ts.dt.normalize().dt.tz_localize(None), the local day
LocalDay(ts, tz) == (ts + tz) \div 24

\* lines 125-127: one row per day from start_date to idx_end_date
DailyIndex(start_date, days) ==
    [k \in 1..days |-> start_date + k - 1]

\* the merge keeps only the days that have sessions
MergeCounts_inner(index, rows, tz) ==
    SelectSeq([k \in DOMAIN index |->
                  [date |-> index[k],
                   count |-> Cardinality({i \in DOMAIN rows :
                                 LocalDay(rows[i].local_ts, tz) = index[k]})]],
              LAMBDA row : row.count > 0)

\* lines 141-148: group by local day, count, left join onto the index and
\* fill the days without sessions with 0
MergeCounts(index, rows, tz) ==
    [k \in DOMAIN index |->
        [date |-> index[k],
         count |-> Cardinality({i \in DOMAIN rows :
                       LocalDay(rows[i].local_ts, tz) = index[k]})]]

compute_daily_counts(sess, start_date, days, tz, reason_filter, systz) ==
    IF \/ "local_ts" \notin sess.columns
       \/ "survey_name" \notin sess.columns
       \/ sess.rows = <<>>
    THEN [k \in DOMAIN DailyIndex(start_date, days) |->
             [date |-> DailyIndex(start_date, days)[k], count |-> 0]]
    ELSE MergeCounts(DailyIndex(start_date, days),
                     ReasonFiltered(Windowed(sess.rows, start_date, days, systz),
                                    reason_filter),
                     tz)

CallComputeDailyCounts ==
    /\ dc_pc = "call"
    /\ dc_daily' = compute_daily_counts(dc_sessions, dc_start_date, dc_days,
                                        dc_tz, dc_reason_filter, dc_systz)
    /\ dc_pc' = "done"
    /\ UNCHANGED <<dc_sessions, dc_start_date, dc_days, dc_tz, dc_systz,
                   dc_reason_filter>>
    /\ UNCHANGED <<condVars, ioVars, betweenVars, taggingVars, statsVars, calcVars>>

\* the most sessions of one participant
MaxDailySessions == 2

\* the timezones the payments page offers: America/New_York (in summer) and UTC
SampleTimezones == {0 - 4, 0}

SampleStartDate == 10

\* schema num_days
SampleDays == {0, 1, 2}

\* two hours before and after the midnights of UTC that start day 10 and day 11
SampleInstants ==
    {SampleStartDate * 24 - 2, SampleStartDate * 24 + 2,
     (SampleStartDate + 1) * 24 - 2, (SampleStartDate + 1) * 24 + 2}

\* survey names 'A.b', 'axb', 'cd' and a missing name
SampleSurveyNames ==
    {Str(<<"A", ".", "b">>), Str(<<"a", "x", "b">>), Str(<<"c", "d">>), NaN}

\* no filter, 'a.b', 'an' and 'CD'
SampleReasons ==
    {None, Str(<<"a", ".", "b">>), Str(<<"a", "n">>), Str(<<"C", "D">>)}

SampleSessionRows == [local_ts : SampleInstants, survey_name : SampleSurveyNames]

\* the participant's sessions as filter_sessions_by_participant returns
\* them, an empty DataFrame without columns included
SampleSessionTables ==
    {[columns |-> {"local_ts", "survey_name"}, rows |-> r] :
        r \in SeqsUpTo(SampleSessionRows, MaxDailySessions)}
    \cup {[columns |-> {}, rows |-> <<>>]}
    \cup {[columns |-> {"survey_name"}, rows |-> <<r>>] : r \in SampleSessionRows}

InitDaily ==
    /\ dc_sessions \in SampleSessionTables
    /\ dc_start_date = SampleStartDate
    /\ dc_days \in SampleDays
    /\ dc_tz \in SampleTimezones
    /\ dc_systz \in SampleTimezones
    /\ dc_reason_filter \in SampleReasons
    /\ dc_pc = "call"
    /\ dc_daily = <<>>
    /\ CondIdle
    /\ BetweenIdle
    /\ TaggingIdle
    /\ IoIdle
    /\ StatsIdle
    /\ CalcIdle

NextDaily == CallComputeDailyCounts

SpecDaily == InitDaily /\ [][NextDaily]_vars

\* ------------------------------------------------------------------------
\* workflows/payments.py: compute_bonus_days and compute_stats, as one
\* schema tab of render_compliance_charts_ui calls them
\* ------------------------------------------------------------------------

\* count > threshold
MeetsThreshold_strictly(count, threshold) == count > threshold

\* line 155: daily_counts["count"] >= threshold on one row
MeetsThreshold(count, threshold) == count >= threshold

compute_bonus_days(daily_counts, threshold) ==
    IF \/ threshold <= 0
       \/ "count" \notin daily_counts.columns
       \/ daily_counts.rows = <<>>
    THEN 0
    ELSE Cardinality({k \in DOMAIN daily_counts.rows :
                         MeetsThreshold(daily_counts.rows[k].count, threshold)})

\* today not counted
DaysElapsed_exclusive(start_date, today_local, num_days) ==
    IF today_local - start_date < num_days
    THEN (IF today_local - start_date < 0 THEN 0 ELSE today_local - start_date)
    ELSE (IF num_days < 0 THEN 0 ELSE num_days)

\* lines 184-186: num_days_elapsed_in_schema
DaysElapsed(start_date, today_local, num_days) ==
    IF (today_local - start_date) + 1 < num_days
    THEN (IF (today_local - start_date) + 1 < 0 THEN 0
          ELSE (today_local - start_date) + 1)
    ELSE (IF num_days < 0 THEN 0 ELSE num_days)

\* the whole table
head_whole_table(rows, n) == rows

\* DataFrame.head(n) for n >= 0
head(rows, n) == SubSeq(rows, 1, IF n < Len(rows) THEN n ELSE Len(rows))

RECURSIVE SumCounts(_)
\* relevant_daily_counts['count'].sum()
SumCounts(rows) ==
    IF rows = <<>> THEN 0 ELSE rows[1].count + SumCounts(Tail(rows))

\* compute_stats with today_local for datetime.now(tz).date()
compute_stats(start_date, today_local, schema_row, daily) ==
    [possible |-> DaysElapsed(start_date, today_local, schema_row.num_days)
                      * schema_row.num_possible_per_day,
     completed |->
        IF "count" \in daily.columns /\ daily.rows # <<>>
        THEN SumCounts(head(daily.rows,
                            DaysElapsed(start_date, today_local, schema_row.num_days)))
        ELSE 0]

\* line 347
CallComputeBonusDays ==
    /\ st_pc = "bonus"
    /\ st_bonus_days' = compute_bonus_days(st_daily, st_schema.bonus_threshold)
    /\ st_pc' = "stats"
    /\ UNCHANGED <<st_daily, st_schema, st_start_date, st_today, st_possible,
                   st_completed>>
    /\ UNCHANGED <<condVars, ioVars, betweenVars, taggingVars, dailyVars, calcVars>>

\* line 349
CallComputeStats ==
    /\ st_pc = "stats"
    /\ st_possible' = compute_stats(st_start_date, st_today, st_schema, st_daily).possible
    /\ st_completed' = compute_stats(st_start_date, st_today, st_schema, st_daily).completed
    /\ st_pc' = "done"
    /\ UNCHANGED <<st_daily, st_schema, st_start_date, st_today, st_bonus_days>>
    /\ UNCHANGED <<condVars, ioVars, betweenVars, taggingVars, dailyVars, calcVars>>

\* the most rows of a daily-count table
MaxRows == 3

\* the counts of one day
SampleCounts == {0, 1, 2}

\* daily-count tables, the table of the test ([1, 0, 2]) and a table
\* without columns included
SampleDailyTables ==
    {[columns |-> {"date", "count"}, rows |-> r] :
        r \in SeqsUpTo([count : SampleCounts], MaxRows)}
    \cup {[columns |-> {}, rows |-> <<>>]}

\* schema rows as load_schema returns them: whole numbers, the bonus
\* threshold 0 when its cell is empty
SampleSchemas ==
    [num_days : {0, 2, 10}, num_possible_per_day : {1, 2},
     bonus_threshold : {0 - 1, 0, 1, 2}]

\* today from two days before start_date to five days after it
SampleTodays == {SampleStartDate + d - 3 : d \in 1..8}

InitStats ==
    /\ st_daily \in SampleDailyTables
    /\ st_schema \in SampleSchemas
    /\ st_start_date = SampleStartDate
    /\ st_today \in SampleTodays
    /\ st_pc = "bonus"
    /\ st_bonus_days = 0 /\ st_possible = 0 /\ st_completed = 0
    /\ CondIdle
    /\ BetweenIdle
    /\ TaggingIdle
    /\ IoIdle
    /\ DailyIdle
    /\ CalcIdle

NextStats ==
    \/ CallComputeBonusDays
    \/ CallComputeStats

SpecStats == InitStats /\ [][NextStats]_vars

\* ------------------------------------------------------------------------
\* workflows/payments.py: the compensation calculator. Money is counted in
\* cents: the amounts of the rates have two decimals, and the floats of the
\* code, shown with two decimals, then show the exact products and sums.
\* ------------------------------------------------------------------------

\* str.contains(pat, regex=False): pat in text
LiteralContains(pat, text) == IsSubstring(pat, text)

\* line 165: survey_name.astype(str).str.lower().fillna("")
SurveyNameLc(v) == LowerStr(astype_str(v))

\* lines 170-172: cnt for one rate
ReasonCount(rows, reason) ==
    IF reason = <<>> THEN 0
    ELSE Cardinality({i \in DOMAIN rows :
            LiteralContains(LowerStr(reason), SurveyNameLc(rows[i].survey_name))})

compute_base_rate_counts(sess, rates) ==
    IF "survey_name" \notin sess.columns \/ rates = <<>> THEN <<>>
    ELSE [k \in DOMAIN rates |->
            [rate_reason |-> rates[k].reason,
             rate_amount |-> rates[k].rate_amount,
             count |-> ReasonCount(sess.rows, rates[k].reason)]]

\* lines 302-305: the dict of a Series indexed by rate_reason; of two rows
\* with one reason the later stays
CountsDict(table) ==
    [r \in {table[k].rate_reason : k \in DOMAIN table} |->
        table[CHOOSE k \in DOMAIN table :
                 /\ table[k].rate_reason = r
                 /\ \A j \in DOMAIN table : table[j].rate_reason = r => j <= k].count]

\* auto_detected_counts.get(reason, 0)
DictGet(dict, key) == IF key \in DOMAIN dict THEN dict[key] ELSE 0

\* lines 293-307; df_part is the participant's sessions
PerformPaymentCalculations ==
    /\ pay_pc = "calc"
    /\ auto_counts_table' =
          IF all_sessions_df = None \/ rates_df = <<>> \/ all_sessions_df.rows = <<>>
          THEN <<>>
          ELSE compute_base_rate_counts(all_sessions_df, rates_df)
    /\ auto_detected_counts' =
          IF all_sessions_df = None \/ rates_df = <<>> THEN <<>>
          ELSE IF auto_counts_table' = <<>>
               THEN [r \in {rates_df[k].reason : k \in DOMAIN rates_df} |-> 0]
               ELSE CountsDict(auto_counts_table')
    /\ pay_pc' = "start"
    /\ UNCHANGED <<all_sessions_df, rates_df, pay_i, manual_adds, subtotals,
                   total_base_auto_payment, total_manual_add_payment, grand_total>>
    /\ UNCHANGED <<condVars, ioVars, betweenVars, taggingVars, dailyVars, statsVars>>

\* lines 383-389: nothing is shown without rates
CalculatorStart ==
    /\ pay_pc = "start"
    /\ pay_pc' = IF rates_df = <<>> THEN "done" ELSE "rows"
    /\ total_base_auto_payment' = 0
    /\ total_manual_add_payment' = 0
    /\ pay_i' = 1
    /\ UNCHANGED <<all_sessions_df, rates_df, auto_counts_table,
                   auto_detected_counts, manual_adds, subtotals, grand_total>>
    /\ UNCHANGED <<condVars, ioVars, betweenVars, taggingVars, dailyVars, statsVars>>

\* what the user types into number_input(min_value=0, step=1)
SampleManualAdds == {0, 3}

\* the subtotal of the automatic part alone
Subtotal_auto_only(rate_value, auto_count, manual_add) == rate_value * auto_count

\* line 455: current_subtotal_for_rate
Subtotal(rate_value, auto_count, manual_add) == rate_value * (auto_count + manual_add)

\* lines 412-465: one row of the calculator, manual_add typed by the user
CalculatorRow ==
    /\ pay_pc = "rows" /\ pay_i <= Len(rates_df)
    /\ \E manual_add \in SampleManualAdds :
          /\ manual_adds' = Append(manual_adds, manual_add)
          /\ subtotals' = Append(subtotals,
                 Subtotal(rates_df[pay_i].rate_amount,
                          DictGet(auto_detected_counts, rates_df[pay_i].reason),
                          manual_add))
          /\ total_manual_add_payment' =
                 total_manual_add_payment + manual_add * rates_df[pay_i].rate_amount
    /\ total_base_auto_payment' =
          total_base_auto_payment
              + DictGet(auto_detected_counts, rates_df[pay_i].reason)
                    * rates_df[pay_i].rate_amount
    /\ pay_i' = pay_i + 1
    /\ UNCHANGED <<all_sessions_df, rates_df, pay_pc, auto_counts_table,
                   auto_detected_counts, grand_total>>
    /\ UNCHANGED <<condVars, ioVars, betweenVars, taggingVars, dailyVars, statsVars>>

\* lines 468-489: the payment summary
PaymentSummary ==
    /\ pay_pc = "rows" /\ pay_i > Len(rates_df)
    /\ grand_total' = total_base_auto_payment + total_manual_add_payment
    /\ pay_pc' = "done"
    /\ UNCHANGED <<all_sessions_df, rates_df, auto_counts_table,
                   auto_detected_counts, pay_i, manual_adds, subtotals,
                   total_base_auto_payment, total_manual_add_payment>>
    /\ UNCHANGED <<condVars, ioVars, betweenVars, taggingVars, dailyVars, statsVars>>

\* the most rates of a rates file
MaxRates == 2

\* rates 'a.b' at $2.00, 'B' at $5.50, one without a reason at $1.00 and
\* 'an' at $3.00
SampleRates ==
    {[id |-> "1", reason |-> <<"a", ".", "b">>, rate_amount |-> 200],
     [id |-> "2", reason |-> <<"B">>, rate_amount |-> 550],
     [id |-> "3", reason |-> <<>>, rate_amount |-> 100],
     [id |-> "4", reason |-> <<"a", "n">>, rate_amount |-> 300]}

\* the sessions of the participant; None when sessions.csv was not read
SampleParticipantTables ==
    {[columns |-> {"local_ts", "survey_name"}, rows |-> r] :
        r \in SeqsUpTo([local_ts : {SampleStartDate * 24}, survey_name : SampleSurveyNames],
                       MaxDailySessions)}
    \cup {[columns |-> {}, rows |-> <<>>], None}

InitCalc ==
    /\ all_sessions_df \in SampleParticipantTables
    /\ rates_df \in SeqsUpTo(SampleRates, MaxRates)
    /\ pay_pc = "calc"
    /\ auto_counts_table = <<>>
    /\ auto_detected_counts = <<>>
    /\ pay_i = 1
    /\ manual_adds = <<>> /\ subtotals = <<>>
    /\ total_base_auto_payment = 0 /\ total_manual_add_payment = 0
    /\ grand_total = 0
    /\ CondIdle
    /\ BetweenIdle
    /\ TaggingIdle
    /\ IoIdle
    /\ DailyIdle
    /\ StatsIdle

NextCalc ==
    \/ PerformPaymentCalculations
    \/ CalculatorStart
    \/ CalculatorRow
    \/ PaymentSummary

SpecCalc == InitCalc /\ [][NextCalc]_vars

\* ------------------------------------------------------------------------
\* utils/background_monitor.py: the auto-delete and auto-quit timers
\* ------------------------------------------------------------------------
\* Time is counted in whole units and bm_now is the clock.  A deadline is a
\* sequence: <<>> for None, <<t>> for the time t.  The defaults of the two
\* timers (30 and 720 minutes) are scaled to 1 and 3 units, which keeps
\* their order: the auto-delete timer is the shorter one.

MaxClock == 4

DefaultAutoDeleteMinutes == 1

DefaultAutoQuitMinutes == 3

\* what the number inputs of the settings page are set to
SampleDeleteMinutes == {1, 2}

SampleQuitMinutes == {2, 3}

\* the session state and the files under data/, as one value
World ==
    [ss |-> session_state, file |-> state_file, csv |-> csv_data,
     signal |-> action_signal, root |-> data_root_exists,
     have_csv |-> have_csv_data]

\* shutil.rmtree(data_root, ignore_errors=True): the state file and the
\* signal file live under data/.internal and go with the directory
rmtree(w) ==
    [w EXCEPT !.csv = FALSE, !.signal = FALSE, !.file = NoStateFile, !.root = FALSE]

\* _write_state_to_file: creates data/.internal and writes the session state
write_state_to_file(w) ==
    [w EXCEPT !.root = TRUE,
              !.file = [exists |-> TRUE,
                        delete_deadline |-> w.ss.delete_deadline,
                        app_start_time |-> w.ss.app_start_time,
                        auto_quit_enabled |-> w.ss.auto_quit_enabled,
                        auto_quit_minutes |-> w.ss.auto_quit_minutes]]

\* the keys init_background_monitor sets when they are missing
DefaultSessionState(now) ==
    [set |-> TRUE, auto_delete_minutes |-> DefaultAutoDeleteMinutes,
     delete_deadline |-> <<>>, app_start_time |-> now,
     auto_quit_enabled |-> TRUE, auto_quit_minutes |-> DefaultAutoQuitMinutes]

\* init_background_monitor, but for the thread it starts (StartThread)
init_background_monitor(w, now) ==
    write_state_to_file(
        [w EXCEPT !.ss = IF w.ss.set THEN w.ss ELSE DefaultSessionState(now)])

\* check_and_handle_signals: st.rerun() starts the script again, which
\* writes the state file once more and finds no signal
check_and_handle_signals(w, now) ==
    IF w.signal
    THEN init_background_monitor(
             [w EXCEPT !.signal = FALSE, !.ss.delete_deadline = <<>>], now)
    ELSE w

manage_auto_delete_timer_unpersisted(w, now) ==
    IF w.csv /\ w.ss.delete_deadline = <<>>
    THEN [w EXCEPT !.have_csv = w.csv,
                   !.ss.delete_deadline = <<now + w.ss.auto_delete_minutes>>]
    ELSE [w EXCEPT !.have_csv = w.csv]

manage_auto_delete_timer(w, now) ==
    IF w.csv /\ w.ss.delete_deadline = <<>>
    THEN write_state_to_file(
             [w EXCEPT !.have_csv = w.csv,
                       !.ss.delete_deadline = <<now + w.ss.auto_delete_minutes>>])
    ELSE [w EXCEPT !.have_csv = w.csv]

\* the top of every run of main.py
PageTop(w, now) ==
    manage_auto_delete_timer(
        check_and_handle_signals(init_background_monitor(w, now), now), now)

extend_auto_delete_timer(w, now) ==
    write_state_to_file(
        [w EXCEPT !.ss.delete_deadline = <<now + w.ss.auto_delete_minutes>>])

delete_data_now(w) ==
    write_state_to_file([rmtree(w) EXCEPT !.ss.delete_deadline = <<>>])

extend_auto_quit_timer(w, now) ==
    write_state_to_file([w EXCEPT !.ss.app_start_time = now])

\* get_time_until_auto_quit() > 0
TimeRemaining(w, now) == w.ss.app_start_time + w.ss.auto_quit_minutes > now

\* start_background_thread, run by the one script thread
StartThread ==
    /\ thread_lock = 0
    /\ monitor_thread' = IF monitor_thread \in alive_threads
                         THEN monitor_thread ELSE monitor_thread + 1
    /\ alive_threads' = IF monitor_thread \in alive_threads
                        THEN alive_threads ELSE alive_threads \cup {monitor_thread + 1}
    /\ stop_monitoring' = IF monitor_thread \in alive_threads
                          THEN stop_monitoring ELSE FALSE
    /\ UNCHANGED <<thread_lock, sbt_pc, sbt_calls>>

SetWorld(w) ==
    /\ session_state' = w.ss
    /\ state_file' = w.file
    /\ csv_data' = w.csv
    /\ action_signal' = w.signal
    /\ data_root_exists' = w.root
    /\ have_csv_data' = w.have_csv

\* a page run can happen
UiReady == process_alive /\ browser_open /\ ui_pc = "idle"

\* what a page run leaves alone
PageFrame ==
    /\ StartThread
    /\ UNCHANGED <<bm_now, process_alive, browser_open>>
    /\ UNCHANGED <<condVars, betweenVars, taggingVars, paymentsVars, downloadVars, selectVars>>

\* what a step of the environment or of the monitor leaves alone
QuietFrame ==
    /\ have_csv_data' = FALSE
    /\ UNCHANGED <<session_state, threadVars>>
    /\ UNCHANGED <<condVars, betweenVars, taggingVars, paymentsVars, downloadVars, selectVars>>

\* a run of main.py with no button pressed
ViewPage ==
    /\ UiReady
    /\ SetWorld(PageTop(World, bm_now))
    /\ ui_pc' = ui_pc
    /\ PageFrame

\* the button "Add N min" of render_auto_delete_buttons
ClickExtendDelete ==
    /\ UiReady
    /\ \E w \in {PageTop(World, bm_now)} :
        /\ w.ss.delete_deadline # <<>>
        /\ SetWorld(PageTop(extend_auto_delete_timer(w, bm_now), bm_now))
    /\ ui_pc' = ui_pc
    /\ PageFrame

\* the buttons "Delete now" and "Delete data now"
ClickDeleteNow ==
    /\ UiReady
    /\ \E w \in {PageTop(World, bm_now)} :
        /\ w.ss.delete_deadline # <<>> \/ w.csv
        /\ SetWorld(PageTop(delete_data_now(w), bm_now))
    /\ ui_pc' = ui_pc
    /\ PageFrame

\* the button "Add Nh" of render_auto_quit_buttons
ClickExtendQuit ==
    /\ UiReady
    /\ \E w \in {PageTop(World, bm_now)} :
        /\ w.ss.auto_quit_enabled /\ TimeRemaining(w, bm_now)
        /\ SetWorld(PageTop(extend_auto_quit_timer(w, bm_now), bm_now))
    /\ ui_pc' = ui_pc
    /\ PageFrame

\* the button "Quit now": a warning when data_exist_anywhere, else the
\* script thread goes into time.sleep(1.5)
ClickQuitNow ==
    /\ UiReady
    /\ \E w \in {PageTop(World, bm_now)} :
        /\ w.ss.auto_quit_enabled /\ TimeRemaining(w, bm_now)
        /\ SetWorld(w)
        /\ ui_pc' = IF w.csv THEN "idle" ELSE "shutting_down"
    /\ PageFrame

\* the end of the sleep: os.kill(os.getpid(), signal.SIGKILL)
QuitNowKill ==
    /\ process_alive /\ ui_pc = "shutting_down"
    /\ process_alive' = FALSE
    /\ ui_pc' = "killed"
    /\ UNCHANGED <<bm_now, state_file, csv_data, action_signal, data_root_exists,
                   browser_open>>
    /\ QuietFrame

\* render_settings: the checkbox "Enable auto-quit"
SettingsToggleQuit ==
    /\ UiReady
    /\ \E w \in {PageTop(World, bm_now)} :
        SetWorld(PageTop(write_state_to_file(
            [w EXCEPT !.ss.auto_quit_enabled = ~w.ss.auto_quit_enabled]), bm_now))
    /\ ui_pc' = ui_pc
    /\ PageFrame

\* render_settings: the number input "Auto-quit timeout (minutes)"
SettingsQuitMinutes ==
    /\ UiReady
    /\ \E w \in {PageTop(World, bm_now)} : \E m \in SampleQuitMinutes :
        /\ w.ss.auto_quit_enabled /\ m # w.ss.auto_quit_minutes
        /\ SetWorld(PageTop(write_state_to_file(
               [w EXCEPT !.ss.auto_quit_minutes = m]), bm_now))
    /\ ui_pc' = ui_pc
    /\ PageFrame

\* render_settings: the number input "Auto-delete timer (minutes)"
SettingsDeleteMinutes ==
    /\ UiReady
    /\ \E w \in {PageTop(World, bm_now)} : \E m \in SampleDeleteMinutes :
        /\ m # w.ss.auto_delete_minutes
        /\ SetWorld(PageTop(write_state_to_file(
               [w EXCEPT !.ss.auto_delete_minutes = m,
                         !.ss.delete_deadline =
                             IF w.ss.delete_deadline # <<>>
                             THEN <<bm_now + m>> ELSE <<>>]), bm_now))
    /\ ui_pc' = ui_pc
    /\ PageFrame

\* the download form of main.py: MetricWireImporter.start writes the CSVs;
\* when the IDs are matched the deadline is reset and the script reruns,
\* when an exception is caught the run ends there
Download ==
    /\ UiReady
    /\ \E w \in {[PageTop(World, bm_now) EXCEPT !.csv = TRUE, !.root = TRUE]} :
        \/ SetWorld(PageTop(
               [w EXCEPT !.ss.delete_deadline = <<bm_now + w.ss.auto_delete_minutes>>],
               bm_now))
        \/ SetWorld([w EXCEPT !.have_csv = FALSE])
    /\ ui_pc' = ui_pc
    /\ PageFrame

\* the download of another browser session of the same process ends
OtherSessionDownload ==
    /\ process_alive /\ browser_open
    /\ csv_data' = TRUE
    /\ data_root_exists' = TRUE
    /\ UNCHANGED <<bm_now, state_file, action_signal, process_alive, ui_pc,
                   browser_open>>
    /\ QuietFrame

\* the page is reloaded: Streamlit gives the new session an empty state
NewSession ==
    /\ UiReady /\ session_state.set
    /\ session_state' = NoSessionState
    /\ have_csv_data' = FALSE
    /\ UNCHANGED <<bm_now, state_file, csv_data, action_signal, data_root_exists,
                   process_alive, ui_pc, browser_open, threadVars>>
    /\ UNCHANGED <<condVars, betweenVars, taggingVars, paymentsVars, downloadVars, selectVars>>

\* the browser is closed: no page run happens any more
CloseBrowser ==
    /\ browser_open
    /\ browser_open' = FALSE
    /\ UNCHANGED <<bm_now, state_file, csv_data, action_signal, data_root_exists,
                   process_alive, ui_pc>>
    /\ QuietFrame

\* time passes
Tick ==
    /\ bm_now < MaxClock
    /\ bm_now' = bm_now + 1
    /\ UNCHANGED <<state_file, csv_data, action_signal, data_root_exists,
                   process_alive, ui_pc, browser_open>>
    /\ QuietFrame

\* now_utc >= delete_deadline
DeadlineReached(deadline, now) == now >= deadline[1]

\* time_running >= timeout_duration
TimedOut(file, now) == now - file.app_start_time >= file.auto_quit_minutes

\* one round of _monitoring_loop: _check_deadlines_from_file
MonitorCheck ==
    /\ process_alive /\ alive_threads # {}
    /\ IF ~state_file.exists
       THEN UNCHANGED <<state_file, csv_data, action_signal, data_root_exists,
                        process_alive>>
       ELSE IF state_file.delete_deadline # <<>>
               /\ DeadlineReached(state_file.delete_deadline, bm_now)
       THEN \* rmtree, then _write_action_signal makes data/.internal again
            /\ state_file' = NoStateFile
            /\ csv_data' = FALSE
            /\ action_signal' = TRUE
            /\ data_root_exists' = TRUE
            /\ process_alive' = process_alive
       ELSE IF state_file.auto_quit_enabled /\ TimedOut(state_file, bm_now)
       THEN \* rmtree, then os.kill
            /\ state_file' = NoStateFile
            /\ csv_data' = FALSE
            /\ action_signal' = FALSE
            /\ data_root_exists' = FALSE
            /\ process_alive' = FALSE
       ELSE UNCHANGED <<state_file, csv_data, action_signal, data_root_exists,
                        process_alive>>
    /\ UNCHANGED <<bm_now, ui_pc, browser_open>>
    /\ QuietFrame

InitMonitor ==
    /\ MonitorIdle
    /\ SelectIdle
    /\ DownloadIdle
    /\ CondIdle
    /\ BetweenIdle
    /\ TaggingIdle
    /\ PaymentsIdle

NextMonitor ==
    \/ ViewPage
    \/ ClickExtendDelete
    \/ ClickDeleteNow
    \/ ClickExtendQuit
    \/ ClickQuitNow
    \/ QuitNowKill
    \/ SettingsToggleQuit
    \/ SettingsQuitMinutes
    \/ SettingsDeleteMinutes
    \/ Download
    \/ OtherSessionDownload
    \/ NewSession
    \/ CloseBrowser
    \/ Tick
    \/ MonitorCheck

SpecMonitor == InitMonitor /\ [][NextMonitor]_vars

\* the monitoring loop wakes every 30 seconds, time passes, a sleep ends
SpecMonitorFair ==
    /\ SpecMonitor
    /\ WF_vars(Tick)
    /\ WF_vars(MonitorCheck)
    /\ WF_vars(QuitNowKill)

\* ------------------------------------------------------------------------
\* start_background_thread called from several script threads
\* ------------------------------------------------------------------------

MaxCalls == 2

\* the thread a caller makes on its n-th call
NewThread(c) == (sbt_calls[c] - 1) * MaxCallers + c

CanAcquire_always(c) == TRUE

\* with _thread_lock: the lock is free
CanAcquire(c) == thread_lock = 0

ThreadFrame ==
    /\ UNCHANGED <<bm_now, worldVars, process_alive, ui_pc, browser_open>>
    /\ UNCHANGED <<condVars, betweenVars, taggingVars, paymentsVars, downloadVars, selectVars>>

AcquireLock(c) ==
    /\ sbt_pc[c] = "idle" /\ sbt_calls[c] < MaxCalls
    /\ CanAcquire(c)
    /\ thread_lock' = c
    /\ sbt_pc' = [sbt_pc EXCEPT ![c] = "check"]
    /\ sbt_calls' = [sbt_calls EXCEPT ![c] = @ + 1]
    /\ UNCHANGED <<monitor_thread, alive_threads, stop_monitoring>>
    /\ ThreadFrame

\* if _monitor_thread is None or not _monitor_thread.is_alive()
CheckThread(c) ==
    /\ sbt_pc[c] = "check"
    /\ sbt_pc' = [sbt_pc EXCEPT ![c] =
                      IF monitor_thread = 0 \/ monitor_thread \notin alive_threads
                      THEN "clear" ELSE "release"]
    /\ UNCHANGED <<monitor_thread, alive_threads, thread_lock, stop_monitoring,
                   sbt_calls>>
    /\ ThreadFrame

\* _stop_monitoring.clear()
ClearStop(c) ==
    /\ sbt_pc[c] = "clear"
    /\ stop_monitoring' = FALSE
    /\ sbt_pc' = [sbt_pc EXCEPT ![c] = "create"]
    /\ UNCHANGED <<monitor_thread, alive_threads, thread_lock, sbt_calls>>
    /\ ThreadFrame

\* _monitor_thread = threading.Thread(...)
CreateThread(c) ==
    /\ sbt_pc[c] = "create"
    /\ monitor_thread' = NewThread(c)
    /\ sbt_pc' = [sbt_pc EXCEPT ![c] = "start"]
    /\ UNCHANGED <<alive_threads, thread_lock, stop_monitoring, sbt_calls>>
    /\ ThreadFrame

\* _monitor_thread.start()
StartMonitorThread(c) ==
    /\ sbt_pc[c] = "start"
    /\ alive_threads' = alive_threads \cup {monitor_thread}
    /\ sbt_pc' = [sbt_pc EXCEPT ![c] = "release"]
    /\ UNCHANGED <<monitor_thread, thread_lock, stop_monitoring, sbt_calls>>
    /\ ThreadFrame

\* the end of the with block
ReleaseLock(c) ==
    /\ sbt_pc[c] = "release"
    /\ thread_lock' = IF thread_lock = c THEN 0 ELSE thread_lock
    /\ sbt_pc' = [sbt_pc EXCEPT ![c] = "idle"]
    /\ UNCHANGED <<monitor_thread, alive_threads, stop_monitoring, sbt_calls>>
    /\ ThreadFrame

\* the event _stop_monitoring is set
SetStop ==
    /\ ~stop_monitoring
    /\ stop_monitoring' = TRUE
    /\ UNCHANGED <<monitor_thread, alive_threads, thread_lock, sbt_pc, sbt_calls>>
    /\ ThreadFrame

\* _monitoring_loop: _stop_monitoring.wait(30) returns True, the thread ends
MonitoringLoopExit ==
    /\ stop_monitoring
    /\ \E t \in alive_threads : alive_threads' = alive_threads \ {t}
    /\ UNCHANGED <<monitor_thread, thread_lock, stop_monitoring, sbt_pc, sbt_calls>>
    /\ ThreadFrame

InitThreads ==
    /\ MonitorIdle
    /\ SelectIdle
    /\ DownloadIdle
    /\ CondIdle
    /\ BetweenIdle
    /\ TaggingIdle
    /\ PaymentsIdle

NextThreads ==
    \/ \E c \in Callers : AcquireLock(c)
    \/ \E c \in Callers : CheckThread(c)
    \/ \E c \in Callers : ClearStop(c)
    \/ \E c \in Callers : CreateThread(c)
    \/ \E c \in Callers : StartMonitorThread(c)
    \/ \E c \in Callers : ReleaseLock(c)
    \/ SetStop
    \/ MonitoringLoopExit

SpecThreads == InitThreads /\ [][NextThreads]_vars

\* ------------------------------------------------------------------------
\* workflows/download.py: rate_limit, patient_request and the import
\* ------------------------------------------------------------------------
\* Times are counted in tenths of a second: the 60 seconds of rate_limit
\* are 600, its margin of 0.1 seconds is 1, the backoff of 5 seconds is 50.

\* LIMIT of rate_limit: 55, or 1000 when the path of download.py holds
\* 'test'; the model takes a small number
LIMIT == 2

Minute == 600

Margin == 1

max_attempts == 3

backoff_factor == 50

\* how many requests the rate limiter is asked for
MaxRequests == 4

\* the time between two calls of rate_limit
SampleGaps == {0, 1, 300, 599}

\* by how much time.sleep overruns
SampleLate == {0, 1}

RECURSIVE MinOf(_)
MinOf(q) ==
    IF Len(q) = 1 THEN q[1]
    ELSE IF q[1] <= MinOf(Tail(q)) THEN q[1] ELSE MinOf(Tail(q))

\* [t for t in cls.last_request_times if now - t < 60]
Recent(times, now) == SelectSeq(times, LAMBDA t : now - t < Minute)

WaitFor_none(times, now) == 0

\* wait = 60 - (now - min(cls.last_request_times)) + 0.1
WaitFor(times, now) == Minute - (now - MinOf(times)) + Margin

\* len(cls.last_request_times) >= LIMIT after the first filter
LimitHit(times, now) == Len(Recent(times, now)) >= LIMIT

\* time.time() when rate_limit appends: after the sleep when the limit is hit
RecordTime(times, now, late) ==
    IF LimitHit(times, now)
    THEN now + WaitFor(Recent(times, now), now) + late
    ELSE now

\* cls.last_request_times when rate_limit returns
rate_limit(times, now, late) ==
    Append(Recent(Recent(times, now), RecordTime(times, now, late)),
           RecordTime(times, now, late))

\* one call of rate_limit, gap tenths of a second after the call before
RateLimitCall ==
    /\ Len(rl_recorded) < MaxRequests
    /\ \E gap \in SampleGaps : \E late \in SampleLate :
        /\ last_request_times' = rate_limit(last_request_times, rl_now + gap, late)
        /\ rl_now' = RecordTime(last_request_times, rl_now + gap, late)
        /\ rl_recorded' = Append(rl_recorded,
                                 RecordTime(last_request_times, rl_now + gap, late))
        /\ rl_waited' = IF LimitHit(last_request_times, rl_now + gap)
                        THEN <<MinOf(Recent(last_request_times, rl_now + gap))>>
                        ELSE <<>>
    /\ UNCHANGED <<requestVars, importVars>>
    /\ UNCHANGED <<condVars, betweenVars, taggingVars, paymentsVars, monitorVars, selectVars>>

InitRateLimit ==
    /\ DownloadIdle
    /\ MonitorIdle
    /\ SelectIdle
    /\ CondIdle
    /\ BetweenIdle
    /\ TaggingIdle
    /\ PaymentsIdle

NextRateLimit == RateLimitCall

SpecRateLimit == InitRateLimit /\ [][NextRateLimit]_vars

\* what one attempt of patient_request meets: an OK response, a 401, another
\* status that is not OK, or a requests.exceptions.RequestException
SampleOutcomes == {"ok", "401", "500", "exception"}

\* the status of the token endpoint
SampleTokenStatus == {200, 500}

\* the parameters of MetricWireImporter.get_headers besides cls
get_headers_params == {}

\* importer.get_headers(**kwargs): a keyword the method does not have is a
\* TypeError, a token status other than 200 a ValueError
get_headers(kwargs, token_status) ==
    IF ~(kwargs \subseteq get_headers_params) THEN "TypeError"
    ELSE IF token_status # 200 THEN "ValueError"
    ELSE "refreshed"

NoResult == [kind |-> "none", resp |-> "", headers |-> "", exc |-> ""]

ReturnsResponse(resp, headers) ==
    [kind |-> "return", resp |-> resp, headers |-> headers, exc |-> ""]

RaisesError(exc) == [kind |-> "raise", resp |-> "", headers |-> "", exc |-> exc]

\* the attempt ends the call: an OK response, or an exception that the
\* except clause does not catch
AttemptEnds(outcome, token_status) ==
    \/ outcome = "ok"
    \/ outcome = "401" /\ get_headers({"study"}, token_status) # "refreshed"

\* one pass of the for loop of patient_request, its sleep included
Attempt ==
    /\ pr_pc = "attempt"
    /\ pr_sent' = Append(pr_sent, pr_headers)
    /\ \E late \in SampleLate :
        /\ last_request_times' = rate_limit(last_request_times, rl_now, late)
        /\ rl_recorded' = Append(rl_recorded, RecordTime(last_request_times, rl_now, late))
        /\ rl_now' = RecordTime(last_request_times, rl_now, late)
                        + (IF AttemptEnds(pr_outcomes[pr_attempt], pr_token_status)
                              \/ pr_attempt = max_attempts
                           THEN 0 ELSE backoff_factor * pr_attempt)
    /\ rl_waited' = IF LimitHit(last_request_times, rl_now)
                    THEN <<MinOf(Recent(last_request_times, rl_now))>> ELSE <<>>
    /\ pr_headers' = IF pr_outcomes[pr_attempt] = "401"
                        /\ get_headers({"study"}, pr_token_status) = "refreshed"
                     THEN "refreshed" ELSE pr_headers
    /\ IF pr_outcomes[pr_attempt] = "ok"
       THEN /\ pr_result' = ReturnsResponse("ok", pr_headers)
            /\ pr_pc' = "done"
            /\ UNCHANGED <<pr_attempt, pr_slept>>
       ELSE IF AttemptEnds(pr_outcomes[pr_attempt], pr_token_status)
       THEN /\ pr_result' = RaisesError(get_headers({"study"}, pr_token_status))
            /\ pr_pc' = "done"
            /\ UNCHANGED <<pr_attempt, pr_slept>>
       ELSE IF pr_attempt = max_attempts
       THEN /\ pr_result' = RaisesError("ConnectionError")
            /\ pr_pc' = "done"
            /\ UNCHANGED <<pr_attempt, pr_slept>>
       ELSE /\ pr_slept' = Append(pr_slept, backoff_factor * pr_attempt)
            /\ pr_attempt' = pr_attempt + 1
            /\ UNCHANGED <<pr_result, pr_pc>>
    /\ UNCHANGED <<pr_outcomes, pr_token_status, importVars>>
    /\ UNCHANGED <<condVars, betweenVars, taggingVars, paymentsVars, monitorVars, selectVars>>

InitRequest ==
    /\ pr_outcomes \in [1..max_attempts -> SampleOutcomes]
    /\ pr_token_status \in SampleTokenStatus
    /\ pr_attempt = 1
    /\ pr_pc = "attempt"
    /\ pr_headers = "initial"
    /\ pr_sent = <<>> /\ pr_slept = <<>>
    /\ pr_result = NoResult
    /\ RateIdle
    /\ ImportIdle
    /\ MonitorIdle
    /\ SelectIdle
    /\ CondIdle
    /\ BetweenIdle
    /\ TaggingIdle
    /\ PaymentsIdle

NextRequest == Attempt

SpecRequest == InitRequest /\ [][NextRequest]_vars

\* --- MetricWireImporter.start ---

MaxSubmissions == 1

Question(id, name, subs) == [id |-> id, variableName |-> name, questions |-> subs]

\* the "questions" of a survey_details response
SampleQuestionLists ==
    {<<>>,
     <<Question("a", "n1", <<>>)>>,
     <<Question("a", "n1", <<Question("b", "n2", <<>>)>>)>>,
     <<Question("a", "n1", <<>>), Question("b", "n2", <<>>)>>}

\* the keys of "questionValues" of a submission, in order
SampleQuestionValues == {<<>>, <<"a">>, <<"a", "b">>, <<"c">>}

SampleSubmissionLists(rid) ==
    SeqsUpTo([responseId : {rid}, questionValues : SampleQuestionValues],
             MaxSubmissions)

\* a survey with what the survey_details and session endpoints return for it
SampleSurveys(sid, rid) ==
    [id : {sid}, questions : SampleQuestionLists,
     submissions : SampleSubmissionLists(rid)]

\* the argument question_filter: missing (None) or a list of names
SampleFilterArgs ==
    {[given |-> FALSE, names |-> {}]}
    \cup {[given |-> TRUE, names |-> n] : n \in {{}, {"n1"}, {"n2"}, {"n1", "n2"}}}

QuestionRow(q, survey, parent_id) ==
    [survey_id |-> survey.id, question_id |-> q.id,
     question_name |-> q.variableName, parent_question_id |-> parent_id]

RECURSIVE handle_questions(_, _, _, _, _)
\* cls._questions after handle_questions(data, survey, parent_id)
handle_questions(data, survey, parent_id, qs, filter) ==
    IF filter = {} \/ data = <<>> THEN qs
    ELSE handle_questions(
             Tail(data), survey, parent_id,
             handle_questions(Head(data).questions, survey, Head(data).id,
                              Append(qs, QuestionRow(Head(data), survey, parent_id)),
                              filter),
             filter)

\* qrows = [q for q in cls._questions if q["question_id"] == qid]
qrows(qs, qid) == SelectSeq(qs, LAMBDA q : q.question_id = qid)

InFilter_any(name, filter) == TRUE

\* qinfo["question_name"] in cls.question_filter
InFilter(name, filter) == name \in filter

\* the keys of questionValues for which a response row is built
Recorded(subm, qs, filter) ==
    SelectSeq(subm.questionValues,
              LAMBDA qid : /\ qrows(qs, qid) # <<>>
                           /\ InFilter(qrows(qs, qid)[1].question_name, filter))

\* the rows handle_sessions appends to cls._responses for one submission
ResponseRows(subm, qs, filter) ==
    IF filter = {} THEN <<>>
    ELSE [i \in DOMAIN Recorded(subm, qs, filter) |->
            [session_id |-> subm.responseId,
             question_id |-> Recorded(subm, qs, filter)[i],
             question_name |-> qrows(qs, Recorded(subm, qs, filter)[i])[1].question_name]]

\* the rows handle_sessions appends to cls._sessions
SessionRows(submissions, survey) ==
    [i \in DOMAIN submissions |->
        [survey_id |-> survey.id, session_id |-> submissions[i].responseId]]

\* start up to the call of import_data: the filter is list(set(arg or []))
\* and the accumulators are reset
StartImport ==
    /\ mw_pc = "start"
    /\ question_filter' = IF question_filter_arg.given
                          THEN question_filter_arg.names ELSE {}
    /\ mw_questions' = <<>> /\ mw_sessions' = <<>> /\ mw_responses' = <<>>
    /\ mw_i' = 1
    /\ mw_pc' = "import"
    /\ UNCHANGED <<question_filter_arg, mw_surveys, rateVars, requestVars>>
    /\ UNCHANGED <<condVars, betweenVars, taggingVars, paymentsVars, monitorVars, selectVars>>

\* one pass of the loop of import_data: handle_questions, then
\* handle_sessions on the one page of submissions
ImportSurvey ==
    /\ mw_pc = "import" /\ mw_i <= Len(mw_surveys)
    /\ \E qs \in {handle_questions(mw_surveys[mw_i].questions, mw_surveys[mw_i],
                                   "None", mw_questions, question_filter)} :
        /\ mw_questions' = qs
        /\ mw_sessions' = mw_sessions
               \o SessionRows(mw_surveys[mw_i].submissions, mw_surveys[mw_i])
        /\ mw_responses' = mw_responses
               \o Concat([i \in DOMAIN mw_surveys[mw_i].submissions |->
                            ResponseRows(mw_surveys[mw_i].submissions[i], qs,
                                         question_filter)])
    /\ mw_i' = mw_i + 1
    /\ UNCHANGED <<mw_pc, question_filter, question_filter_arg, mw_surveys,
                   rateVars, requestVars>>
    /\ UNCHANGED <<condVars, betweenVars, taggingVars, paymentsVars, monitorVars, selectVars>>

\* the three CSVs are written
DumpCsvs ==
    /\ mw_pc = "import" /\ mw_i > Len(mw_surveys)
    /\ mw_pc' = "done"
    /\ UNCHANGED <<mw_i, mw_questions, mw_sessions, mw_responses, question_filter,
                   question_filter_arg, mw_surveys, rateVars, requestVars>>
    /\ UNCHANGED <<condVars, betweenVars, taggingVars, paymentsVars, monitorVars, selectVars>>

InitImport ==
    /\ question_filter_arg \in SampleFilterArgs
    /\ mw_surveys \in {<<s1, s2>> : s1 \in SampleSurveys("s1", "r1"),
                                    s2 \in SampleSurveys("s2", "r2")}
    /\ question_filter = {}
    /\ mw_pc = "start"
    /\ mw_i = 1
    /\ mw_questions = <<>> /\ mw_sessions = <<>> /\ mw_responses = <<>>
    /\ RateIdle
    /\ RequestIdle
    /\ MonitorIdle
    /\ SelectIdle
    /\ CondIdle
    /\ BetweenIdle
    /\ TaggingIdle
    /\ PaymentsIdle

NextImport ==
    \/ StartImport
    \/ ImportSurvey
    \/ DumpCsvs

SpecImport == InitImport /\ [][NextImport]_vars

\* ------------------------------------------------------------------------
\* The participant input of the Payments page
\* (render_participant_and_settings_ui, get_valid_participants)

\* the most rows of sessions.csv
MaxParticipantRows == 3

\* within_study_id cells: 'a1', 'a10', 'A1', 'b' and a missing cell
SampleParticipantCells ==
    {Str(<<"a", "1">>), Str(<<"a", "1", "0">>), Str(<<"A", "1">>), Str(<<"b">>), NaN}

\* sessions.csv as read_csv returns it, a file without the column
\* within_study_id included
SampleSessionsCsv ==
    {[columns |-> {"within_study_id"}, rows |-> r] :
        r \in SeqsUpTo([within_study_id : SampleParticipantCells], MaxParticipantRows)}
    \cup {[columns |-> {}, rows |-> <<>>]}

\* what the researcher types: nothing, each ID, '1', 'nan' and 'x'
SampleParticipantInputs ==
    {<<>>, <<"a", "1">>, <<"a", "1", "0">>, <<"A", "1">>, <<"b">>, <<"1">>,
     <<"n", "a", "n">>, <<"x">>}

\* sessions["within_study_id"].astype(str).dropna().unique(), as a set:
\* dropna comes after astype(str) and finds nothing to drop
unique_ids(df) ==
    {astype_str(df.rows[i].within_study_id) : i \in DOMAIN df.rows}

RECURSIVE sorted(_)
\* sorted() on a set of str
sorted(S) ==
    IF S = {} THEN <<>>
    ELSE <<CHOOSE m \in S : \A y \in S \ {m} : StrLess(m, y)>>
         \o sorted(S \ {CHOOSE m \in S : \A y \in S \ {m} : StrLess(m, y)})

get_valid_participants(df) ==
    IF "within_study_id" \notin df.columns \/ df.rows = <<>> THEN <<>>
    ELSE sorted(unique_ids(df))

\* [pid for pid in valid_ids if participant_input_val.lower() in pid.lower()]
Matches(valid_ids, val) ==
    SelectSeq(valid_ids, LAMBDA pid : IsSubstring(LowerStr(val), LowerStr(pid)))

\* lines 254-263: the warning shown for the typed text
InputWarning(valid_ids, val) ==
    IF val = <<>> THEN {}
    ELSE IF Len(Matches(valid_ids, val)) = 1 THEN {}
    ELSE IF Len(Matches(valid_ids, val)) > 1 THEN {"Multiple matches"}
    ELSE IF valid_ids # <<>> THEN {"No participant ID matching"}
    ELSE {}

\* one run of the page with val in the text input; main.py stores the
\* returned ID in st.session_state.payments_selected_participant_id
RenderParticipant(val) ==
    /\ IF "within_study_id" \notin sel_sessions_df.columns
       THEN /\ participant_input_val' = <<>>
            /\ matched_ids' = <<>>
            /\ selected_participant_id' = <<>>
            /\ sel_messages' = {"missing within_study_id column"}
       ELSE /\ participant_input_val' = val
            /\ matched_ids' =
                 IF val = <<>> THEN <<>>
                 ELSE Matches(get_valid_participants(sel_sessions_df), val)
            /\ selected_participant_id' =
                 IF val # <<>>
                    /\ Len(Matches(get_valid_participants(sel_sessions_df), val)) = 1
                 THEN <<Matches(get_valid_participants(sel_sessions_df), val)[1]>>
                 ELSE <<>>
            /\ sel_messages' =
                 (IF get_valid_participants(sel_sessions_df) = <<>>
                  THEN {"No participant IDs found"} ELSE {})
                 \cup InputWarning(get_valid_participants(sel_sessions_df), val)
    /\ sel_pc' = "rendered"
    /\ UNCHANGED sel_sessions_df
    /\ UNCHANGED <<condVars, betweenVars, taggingVars, paymentsVars, monitorVars,
                   downloadVars>>

EnterParticipant == \E val \in SampleParticipantInputs : RenderParticipant(val)

InitSelect ==
    /\ sel_sessions_df \in SampleSessionsCsv
    /\ participant_input_val = <<>>
    /\ matched_ids = <<>>
    /\ selected_participant_id = <<>>
    /\ sel_messages = {}
    /\ sel_pc = "start"
    /\ CondIdle
    /\ BetweenIdle
    /\ TaggingIdle
    /\ PaymentsIdle
    /\ MonitorIdle
    /\ DownloadIdle

NextSelect == EnterParticipant

SpecSelect == InitSelect /\ [][NextSelect]_vars

\* ------------------------------------------------------------------------
\* Claims about eval_single_condition (SpecCond)
\* ------------------------------------------------------------------------

\* the result of the call on the one response r alone
Alone(r) == eval_single_condition(cond, <<r>>, {r.question_name}).val

\* a response with content: neither skipped nor not_seen
HasContent(r) == ~r.skipped /\ ~r.not_seen

\* C2: the call returns true iff at least one of the responses to the
\* condition's questions yields true when evaluated on its own
C2_OrOverResponses ==
    (pc = "done" /\ sub # <<>>) => (ret = \E i \in DOMAIN sub : Alone(sub[i]))

\* C3 as stated: with a skipped response as the only response, the result is
\* true under skip_behavior '1' and otherwise the result on no responses
C3_SkippedAsNoData ==
    (pc = "done" /\ Len(sub) = 1 /\ sub[1].skipped)
        => ret = IF cond.skip_behavior = "1" THEN TRUE
                 ELSE eval_single_condition(cond, <<>>, cond_qs).val

\* C3 amended: with a skipped response as the only response, the result is
\* the skip_behavior flag itself, for every operator, 'empty' included
C3_SkippedIsFlag ==
    (pc = "done" /\ Len(sub) = 1 /\ sub[1].skipped)
        => ret = (cond.skip_behavior = "1")

C3_Witness ==
    /\ pc = "done" /\ Len(sub) = 1 /\ sub[1].skipped
    /\ cond.operator = "empty" /\ cond.skip_behavior = "0" /\ ret = FALSE

\* the list without its element at position i
Without(seq, i) == SubSeq(seq, 1, i - 1) \o SubSeq(seq, i + 1, Len(seq))

\* C4: the result is the same with a not_seen response present as with it
\* removed
C4_NotSeenNeverContributes ==
    pc = "done" =>
        \A i \in DOMAIN sess_responses :
            (sess_responses[i].not_seen /\ ~sess_responses[i].skipped)
                => ret = eval_single_condition(cond, Without(sess_responses, i),
                                               cond_qs).val

\* C5: operator 'empty' on a session with no response to any of the
\* condition's questions is true, whatever the value and skip_behavior
C5_VacuousEmpty ==
    (/\ pc = "done"
     /\ cond.operator = "empty"
     /\ \A i \in DOMAIN sess_responses :
            sess_responses[i].question_name \notin cond_qs)
        => ret = TRUE

C5_Witness ==
    /\ pc = "done" /\ ret = TRUE
    /\ cond.operator = "empty" /\ cond.skip_behavior = "0"
    /\ cond_qs = {"q1"}
    /\ sess_responses # <<>>
    /\ \A i \in DOMAIN sess_responses : sess_responses[i].question_name = "q2"

ComparisonOperators == {"==", "!=", "<", "<=", ">", ">="}

\* a str that parses as a number
Numeric(v) == v.t = "str" /\ CanFloat(v.s)

\* op applied to the numbers a and b
NumericCompare(op, a, b) ==
    CASE op = "==" -> FltEq(a, b)
      [] op = "!=" -> ~FltEq(a, b)
      [] op = "<"  -> FltLess(a, b)
      [] op = "<=" -> FltLess(a, b) \/ FltEq(a, b)
      [] op = ">"  -> FltLess(b, a)
      [] op = ">=" -> FltLess(b, a) \/ FltEq(a, b)

\* op applied to the strings a and b, in lexical order
LexicalCompare(op, a, b) ==
    CASE op = "==" -> a = b
      [] op = "!=" -> a # b
      [] op = "<"  -> StrLess(a, b)
      [] op = "<=" -> StrLess(a, b) \/ a = b
      [] op = ">"  -> StrLess(b, a)
      [] op = ">=" -> StrLess(b, a) \/ a = b

\* the responses of sub the comparison claims are about: a str content
\* compared with a str value by one of the six operators
Compared(i) ==
    /\ i \in DOMAIN trace
    /\ HasContent(sub[i])
    /\ sub[i].content.t = "str" /\ cond.value.t = "str"
    /\ cond.operator \in ComparisonOperators

ValueIsNumber(i) ==
    /\ Numeric(cond.value)
    /\ \E j \in 1..i : HasContent(sub[j])
                       /\ (sub[j].content.t = "nan" \/ Numeric(sub[j].content))

Tenths(v) == v.num * Pow10(1 - v.scale)

\* C8: handle_between is true iff value satisfies the lower bound (>= after
\* '[', > after '(') and the upper bound (<= before ']', < before ')')
C8_BetweenBounds ==
    hb_pc = "done" =>
        /\ ~hb_result.raised
        /\ hb_result.val =
              (/\ IF hb_range.lb = "["
                  THEN Tenths(hb_value) >= Tenths(hb_range.lo.v)
                  ELSE Tenths(hb_value) > Tenths(hb_range.lo.v)
               /\ IF hb_range.rb = "]"
                  THEN Tenths(hb_value) <= Tenths(hb_range.hi.v)
                  ELSE Tenths(hb_value) < Tenths(hb_range.hi.v))

\* a value on the exclusive lower bound of a range whose upper bound is
\* inclusive
C8_Witness ==
    /\ hb_pc = "done"
    /\ hb_range.lb = "(" /\ hb_range.rb = "]"
    /\ hb_value = hb_range.lo.v
    /\ Tenths(hb_range.lo.v) < Tenths(hb_range.hi.v)
    /\ hb_result = Returns(FALSE)

\* ------------------------------------------------------------------------
\* Claims about the tagging run (SpecTagging)
\* ------------------------------------------------------------------------

\* the responses of the session at position i of sessions
AnswersOfSession(i) ==
    SelectSeq(responses, LAMBDA r : r.session_id = sessions[i].session_id)

\* condition c holds on the responses of session i
ConditionHolds(c, i) ==
    eval_single_condition(
        c, AnswersOfSession(i),
        {q \in QuestionNames :
            \E k \in DOMAIN cond_questions :
                cond_questions[k] = [condition_id |-> c.id, question_name |-> q]}).val

\* C6: when the run starts on a session, every group is the AND (true when
\* there are none) or the OR (false when there are none) of exactly the
\* conditions whose group_id is its id, on that session's responses
C6_GroupCombinesItsConditions ==
    (tpc = "loop" /\ wi = 1) =>
        \A g \in DOMAIN groups :
            eval_condition_group(groups[g], conditions, cond_questions,
                                 AnswersOfSession(si))
              = IF groups[g].logical_operator = "AND"
                THEN \A c \in DOMAIN conditions :
                        conditions[c].group_id = groups[g].id
                            => ConditionHolds(conditions[c], si)
                ELSE \E c \in DOMAIN conditions :
                        /\ conditions[c].group_id = groups[g].id
                        /\ ConditionHolds(conditions[c], si)

\* an AND group with a true and a false condition next to an AND group with
\* no condition at all
C6_Witness ==
    /\ tpc = "loop" /\ wi = 1 /\ si = 1
    /\ groups[1].logical_operator = "AND" /\ groups[2].logical_operator = "AND"
    /\ \A c \in DOMAIN conditions : conditions[c].group_id = "g1"
    /\ ConditionHolds(conditions[1], 1) /\ ~ConditionHolds(conditions[2], 1)
    /\ ~eval_condition_group(groups[1], conditions, cond_questions, AnswersOfSession(1))
    /\ eval_condition_group(groups[2], conditions, cond_questions, AnswersOfSession(1))

\* group g holds on the responses of session i
GroupHolds(g, i) ==
    eval_condition_group(g, conditions, cond_questions, AnswersOfSession(i))

\* C7: the workflow the run evaluates on a session is false when it has no
\* groups; otherwise it is the AND or the OR of exactly the groups whose
\* workflow_id is its id
C7_WorkflowCombinesItsGroups ==
    (tpc = "loop" /\ wi <= Len(workflows_df)) =>
        Fires = IF \A g \in DOMAIN groups : groups[g].workflow_id # workflows_df[wi].id
                THEN FALSE
                ELSE IF workflows_df[wi].logical_operator = "AND"
                THEN \A g \in DOMAIN groups :
                        groups[g].workflow_id = workflows_df[wi].id
                            => GroupHolds(groups[g], si)
                ELSE \E g \in DOMAIN groups :
                        /\ groups[g].workflow_id = workflows_df[wi].id
                        /\ GroupHolds(groups[g], si)

\* the run reaches an AND workflow that has no groups, and does not tag
C7_Witness ==
    /\ tpc = "loop" /\ wi <= Len(workflows_df)
    /\ workflows_df[wi].logical_operator = "AND"
    /\ \A g \in DOMAIN groups : groups[g].workflow_id # workflows_df[wi].id
    /\ ~Fires

\* the titles session i is to receive: those of the workflows of type '1'
\* that hold on its responses, in the order of workflows.csv
ExpectedTitles(i) ==
    [k \in DOMAIN SelectSeq(workflows, LAMBDA w :
            /\ w.workflow_type = "1"
            /\ eval_workflow(w, groups, conditions, cond_questions, AnswersOfSession(i))) |->
        TitleOf(tags, SelectSeq(workflows, LAMBDA w :
            /\ w.workflow_type = "1"
            /\ eval_workflow(w, groups, conditions, cond_questions,
                             AnswersOfSession(i)))[k].tag_id)]

\* C1: after the run, session_tags of every session is the ';'-joined titles
\* of the type '1' workflows that hold on it, in configuration order
C1_SessionTags ==
    tpc = "done" =>
        /\ DOMAIN session_tags = DOMAIN sessions
        /\ \A i \in DOMAIN sessions : session_tags[i] = Join(ExpectedTitles(i))

\* one session tagged by both workflows, in workflow order, another by none
C1_Witness ==
    /\ tpc = "done"
    /\ session_tags[1] = <<"H", ";", "N">>
    /\ session_tags[2] = <<>>

\* the rows of a response table whose session_id is sid
OwnResponses(table, sid) == SelectSeq(table, LAMBDA r : r.session_id = sid)

\* C11: no cross-session leakage: the session_tags a session received are
\* those run_tagging gives it on every response table that agrees with this
\* one on the session's own responses, whatever the other sessions answered
C11_NoCrossSessionLeakage ==
    tpc = "done" =>
        \A i \in DOMAIN sessions :
            \A other \in SampleResponseTables :
                OwnResponses(other, sessions[i].session_id)
                        = OwnResponses(responses, sessions[i].session_id)
                    => run_tagging(sessions, other, workflows, groups, conditions,
                                   cond_questions, tags)[i] = session_tags[i]

\* the run tagged two sessions that answered differently with different
\* titles: the workflows that hold on one do not hold on the other
C11_Witness ==
    /\ tpc = "done"
    /\ OwnResponses(responses, "s1") # <<>>
    /\ OwnResponses(responses, "s2") # <<>>
    /\ session_tags[1] = <<"H">>
    /\ session_tags[2] = <<"N">>


C13_FixtureTags ==
    (tpc = "done" /\ workflows = FixtureWorkflows) =>
        session_tags = <<NoRisk, SomeRisk, SomeRisk, HighRisk, HighRisk>>

\* the run on the fixture has written its column; the session with intent 8
\* passed the workflow of Some risk untagged
C13_Witness ==
    /\ tpc = "done" /\ workflows = FixtureWorkflows
    /\ Len(session_tags) = 5
    /\ session_to_tags["s4"] = <<HighRisk>>


\* ------------------------------------------------------------------------
\* Claims about compute_daily_counts (SpecDaily)
\* ------------------------------------------------------------------------

\* the survey name of row r contains the filter, whatever the case
NameContains(r, reason_filter) ==
    /\ r.survey_name.t = "str"
    /\ IsSubstring(LowerStr(reason_filter.s), LowerStr(r.survey_name.s))

\* the rows of the argument that start on local day d and pass the filter
SessionsOfDay(d) ==
    {i \in DOMAIN dc_sessions.rows :
        /\ (dc_sessions.rows[i].local_ts + dc_tz) \div 24 = d
        /\ (dc_reason_filter \in {None, Str(<<>>)}
            \/ NameContains(dc_sessions.rows[i], dc_reason_filter))}

\* C14: the count of every day of the window is the number of sessions that
\* start on that day in the given timezone and whose survey name contains
\* reason_filter case-insensitively (every session without a filter)
C14_DailyCounts ==
    (dc_pc = "done" /\ {"local_ts", "survey_name"} \subseteq dc_sessions.columns) =>
        \A k \in DOMAIN dc_daily :
            dc_daily[k].count = Cardinality(SessionsOfDay(dc_daily[k].date))

ElapsedDays ==
    IF st_today - st_start_date + 1 <= 0 \/ st_schema.num_days <= 0 THEN 0
    ELSE IF st_schema.num_days <= st_today - st_start_date + 1
         THEN st_schema.num_days
         ELSE st_today - st_start_date + 1

\* C16: possible is days_elapsed * num_possible_per_day: 0 when today is
\* before start_date, today counted while inside the window, and never more
\* than num_days * num_possible_per_day
C16_Possible ==
    st_pc = "done" =>
        /\ st_possible = ElapsedDays * st_schema.num_possible_per_day
        /\ st_today < st_start_date => st_possible = 0
        /\ (st_today >= st_start_date
                /\ st_today - st_start_date < st_schema.num_days)
             => st_possible = (st_today - st_start_date + 1)
                                  * st_schema.num_possible_per_day
        /\ st_possible <= st_schema.num_days * st_schema.num_possible_per_day

\* today is 5 days after the start of a 10-day schema with 1 per day: 6
C16_Witness ==
    /\ st_pc = "done"
    /\ st_today = st_start_date + 5
    /\ st_schema.num_days = 10 /\ st_schema.num_possible_per_day = 1
    /\ st_possible = 6

\* the sum of count over the rows at positions 1..n of the table
RECURSIVE PrefixSum(_)
PrefixSum(n) ==
    IF n = 0 THEN 0
    ELSE PrefixSum(n - 1)
         + (IF n <= Len(st_daily.rows) THEN st_daily.rows[n].count ELSE 0)

\* C17: completed is the sum of count over the first days_elapsed rows of
\* the table (all its rows when it has fewer), 0 when days_elapsed is 0 or
\* the table is empty: no row after position days_elapsed is included
C17_Completed ==
    st_pc = "done" => st_completed = PrefixSum(ElapsedDays)

\* today is on the second day of the schema and the third row has sessions
\* that are not counted
C17_Witness ==
    /\ st_pc = "done"
    /\ ElapsedDays = 2
    /\ Len(st_daily.rows) = 3
    /\ st_daily.rows[3].count = 2
    /\ st_daily.rows[1].count = 1
    /\ st_completed = 1

\* C18: bonus days is the number of rows with count >= threshold when
\* threshold > 0, and 0 when threshold <= 0 or the table is empty; it is
\* never more than the number of rows
C18_BonusDays ==
    st_pc \in {"stats", "done"} =>
        /\ st_schema.bonus_threshold > 0 =>
              st_bonus_days = Cardinality({k \in DOMAIN st_daily.rows :
                    st_daily.rows[k].count >= st_schema.bonus_threshold})
        /\ (st_schema.bonus_threshold <= 0 \/ st_daily.rows = <<>>)
              => st_bonus_days = 0
        /\ st_bonus_days <= Len(st_daily.rows)

\* threshold 2 on the counts 1, 0, 2 of the test: one bonus day
C18_Witness ==
    /\ st_pc = "stats"
    /\ st_schema.bonus_threshold = 2
    /\ st_daily.rows = <<[count |-> 1], [count |-> 0], [count |-> 2]>>
    /\ st_bonus_days = 1


\* ------------------------------------------------------------------------
\* Claims about the compensation calculator (SpecCalc)
\* ------------------------------------------------------------------------

\* the survey name of a session contains the reason, whatever the case
NameHasReason(row, reason) ==
    /\ row.survey_name.t = "str"
    /\ IsSubstring(LowerStr(reason), LowerStr(row.survey_name.s))

\* compute_base_rate_counts was called and looked at the survey names
CountsComputed ==
    /\ pay_pc # "calc"
    /\ all_sessions_df # None
    /\ all_sessions_df.rows # <<>>
    /\ rates_df # <<>>

\* C19: the table has one row per rate, and its count is the number of
\* sessions whose survey name contains the reason of the rate
\* case-insensitively, 0 for an empty reason; a session is counted for
\* every rate whose reason its name contains
C19_BaseRateCounts ==
    CountsComputed =>
        /\ Len(auto_counts_table) = Len(rates_df)
        /\ \A k \in DOMAIN auto_counts_table :
              auto_counts_table[k].count =
                  IF rates_df[k].reason = <<>> THEN 0
                  ELSE Cardinality({i \in DOMAIN all_sessions_df.rows :
                          NameHasReason(all_sessions_df.rows[i], rates_df[k].reason)})

\* the automatic count the calculator has for the rate at position k
AutoCountOf(k) ==
    IF rates_df[k].reason \in DOMAIN auto_detected_counts
    THEN auto_detected_counts[rates_df[k].reason]
    ELSE 0

RECURSIVE SumSeq(_)
SumSeq(q) == IF q = <<>> THEN 0 ELSE q[1] + SumSeq(Tail(q))

\* C20: the subtotal of every rate is rate_amount * (auto_count +
\* manual_count), the grand total shown is the sum of the subtotals, and a
\* rate without an automatic count contributes its manual part alone
C20_Totals ==
    (pay_pc = "done" /\ rates_df # <<>>) =>
        /\ Len(subtotals) = Len(rates_df)
        /\ \A k \in DOMAIN rates_df :
              /\ subtotals[k] = rates_df[k].rate_amount * (AutoCountOf(k) + manual_adds[k])
              /\ rates_df[k].reason \notin DOMAIN auto_detected_counts
                    => subtotals[k] = rates_df[k].rate_amount * manual_adds[k]
        /\ grand_total = SumSeq(subtotals)

\* $2.00 with 2 automatic and 3 manual contributes $10.00, and a
\* second rate adds its own subtotal to the grand total
C20_Witness ==
    /\ pay_pc = "done" /\ Len(rates_df) = 2
    /\ rates_df[1].rate_amount = 200
    /\ AutoCountOf(1) = 2 /\ manual_adds[1] = 3
    /\ subtotals[1] = 1000
    /\ subtotals[2] > 0
    /\ grand_total = 1000 + subtotals[2]

\* ------------------------------------------------------------------------
\* Claims about the background monitor (SpecMonitor, SpecMonitorFair,
\* SpecThreads)
\* ------------------------------------------------------------------------

\* the browser is closed with auto-quit enabled, and the timeout lies
\* within the time the clock covers
QuitArmed ==
    /\ process_alive /\ ~browser_open /\ ui_pc = "idle"
    /\ session_state.set /\ session_state.auto_quit_enabled
    /\ session_state.app_start_time + session_state.auto_quit_minutes <= MaxClock

\* C21: with auto-quit enabled and no page run any more, the monitor
\* eventually removes the data directory and kills the process
C21_AutoQuitEventually == QuitArmed ~> (~process_alive /\ ~data_root_exists)

\* the deadline of the session is the one in the state file
DeadlinePersisted ==
    /\ session_state.delete_deadline # <<>>
    /\ state_file.exists
    /\ state_file.delete_deadline = session_state.delete_deadline

\* CSV data lies under data/ and the persisted deadline has passed
DeadlinePassed ==
    /\ process_alive /\ csv_data
    /\ state_file.exists
    /\ state_file.delete_deadline # <<>>
    /\ bm_now >= state_file.delete_deadline[1]

\* C22: a page run that finds CSV data leaves a delete deadline set and
\* persisted; once a persisted deadline has passed the data is removed or
\* the deadline moved, and with the browser closed the data is removed
C22_AutoDelete ==
    /\ [](have_csv_data => DeadlinePersisted)
    /\ (DeadlinePassed ~> ~DeadlinePassed)
    /\ ((DeadlinePassed /\ ~browser_open) ~> ~csv_data)

\* the monitor has removed the data with the browser closed
C22_Witness ==
    process_alive /\ ~browser_open /\ action_signal /\ ~csv_data /\ ~state_file.exists

\* C23: the process is never killed while CSV data lies under the data root
C23_NoKillWithData == ~process_alive => ~csv_data

\* C24: at most one monitoring thread is alive, and a thread is started
\* only when no thread is alive
C24_OneMonitorThread ==
    /\ [](Cardinality(alive_threads) <= 1)
    /\ [][alive_threads' # alive_threads /\ alive_threads' # {}
            => alive_threads = {}]_vars

\* caller 1 has started a thread on its second call, after the thread
\* before it had ended, while caller 2 is inside a call
C24_Witness ==
    /\ alive_threads = {MaxCallers + 1}
    /\ sbt_calls[2] > 0

\* ------------------------------------------------------------------------
\* Claims about the download (SpecRequest, SpecRateLimit, SpecImport)
\* ------------------------------------------------------------------------

\* the first attempt that meets an OK response, 0 when there is none
FirstOk ==
    IF pr_outcomes[1] = "ok" THEN 1
    ELSE IF pr_outcomes[2] = "ok" THEN 2
    ELSE IF pr_outcomes[3] = "ok" THEN 3 ELSE 0

\* the sleeps after n failed attempts: 5 * attempt seconds each
Backoffs(n) == [k \in 1..n |-> backoff_factor * k]

\* C25: the call makes at most 3 attempts, returns the first OK response
\* without a further attempt, sleeps 5 * attempt seconds after each failed
\* attempt but the last, raises ConnectionError when all 3 attempts fail,
\* and never returns a response that is not OK
C25_PatientRequest ==
    pr_pc = "done" =>
        /\ Len(pr_sent) <= max_attempts
        /\ pr_result.kind = "return" => pr_result.resp = "ok"
        /\ FirstOk # 0 =>
            /\ pr_result.kind = "return"
            /\ Len(pr_sent) = FirstOk
            /\ pr_slept = Backoffs(FirstOk - 1)
        /\ FirstOk = 0 =>
            /\ pr_result = RaisesError("ConnectionError")
            /\ Len(pr_sent) = max_attempts
            /\ pr_slept = Backoffs(max_attempts - 1)

\* C26: after a 401 with attempts left the next request is sent with
\* refreshed headers, a response returned after a 401 comes with the
\* refreshed headers, and the only error raised is ConnectionError after
\* the last attempt
C26_RefreshOn401 ==
    pr_pc = "done" =>
        /\ \A k \in 1..(max_attempts - 1) :
              (k <= Len(pr_sent) /\ pr_outcomes[k] = "401")
                  => (Len(pr_sent) > k /\ pr_sent[k + 1] = "refreshed")
        /\ (pr_result.kind = "return"
                /\ \E k \in 1..Len(pr_sent) : pr_outcomes[k] = "401")
              => pr_result.headers = "refreshed"
        /\ pr_result.kind = "raise"
              => (pr_result.exc = "ConnectionError" /\ Len(pr_sent) = max_attempts)

\* how many recorded requests lie in the 60 seconds that start at time a
InWindow(a) ==
    Cardinality({j \in DOMAIN rl_recorded :
                    a <= rl_recorded[j] /\ rl_recorded[j] < a + Minute})

ExpectedSessions ==
    Concat([i \in DOMAIN mw_surveys |->
              [j \in DOMAIN mw_surveys[i].submissions |->
                  [survey_id |-> mw_surveys[i].id,
                   session_id |-> mw_surveys[i].submissions[j].responseId]]])

BuiltForSchema ==
    /\ st_daily.columns = {"date", "count"}
    /\ Len(st_daily.rows) = st_schema.num_days

\* C29: for a daily-count table built by compute_daily_counts with the
\* start_date and num_days of the schema, the completed value that
\* compute_stats returns never exceeds the possible value, so the overall
\* compliance shown never exceeds 100%
C29_CompletedAtMostPossible ==
    (st_pc = "done" /\ BuiltForSchema) => st_completed <= st_possible

\* ------------------------------------------------------------------------
\* Claims about the participant input (SpecSelect)

\* the typed text is exactly one of the participant IDs of sessions.csv
ExactIdEntered ==
    /\ sel_pc = "rendered"
    /\ participant_input_val # <<>>
    /\ participant_input_val \in unique_ids(sel_sessions_df)

\* C30: every participant of the sessions table can be selected: entering
\* the exact ID of a participant selects that participant, whatever other
\* participant IDs exist
C30_ExactIdSelects ==
    ExactIdEntered => selected_participant_id = <<participant_input_val>>

====
